---- MODULE Spec2Model ----
(***************************************************************************)
(* Room membership and chunked file transfer of share_p2p (the Room        *)
(* component, src/unnamed/part_002) over PeerJS data connections, with the *)
(* HTTP discovery registry of src/client/app/api/rooms/[roomId]/peers.     *)
(*                                                                         *)
(* Modelling conventions                                                   *)
(*  - a participant is identified by its peerId (1..NPeers); its display   *)
(*    name is a function of the peerId and is not carried separately;      *)
(*  - every event handler (a channel event, a fetch continuation, a        *)
(*    FileReader callback, a button press) is one atomic action, React     *)
(*    state updaters included;                                             *)
(*  - a DataConnection is one record with the state of its dialing end     *)
(*    and of its accepting end and one FIFO queue per direction;           *)
(*  - JavaScript Maps and arrays are sequences in insertion order.         *)
(***************************************************************************)
EXTENDS Integers, Sequences, FiniteSets, TLC

NPeers == 3
Peers == 1..NPeers
NoPeer == 0
NoConn == 0

\* connect attempts one participant can make to one remote peer
MaxDials == 2

\* the participants of the concurrent-join specification
NJoin == 2
JoinPeers == 1..NJoin

\* the clock advances in steps of StepMs, at most MaxTicks times
StepMs == 1800000
MaxTicks == 3

CHUNK_SIZE == 65536

\* the files a participant can select, the number it can select for one Send
\* and the number of sendSingleFile calls of all participants together
Files == {[name |-> "a", size |-> 100000], [name |-> "b", size |-> CHUNK_SIZE]}
MaxSelect == 2
MaxSends == 2
MaxRequests == 3

VARIABLES
    registry,        \* the discovery registry: Map roomId -> Map peerId -> PeerEntry
    pc,              \* pc[p]: position of p's joinRoom ("idle", "posted", "fetched", "joined",
                     \* "failed" after the catch branch),
                     \* of its handleLeaveRoom ("leaving", "deleted"), or "gone" (page closed)
    resp,            \* resp[p]: body of the GET response on its way to p
    myNameRef,       \* myNameRef[p]: TRUE once joinRoom has stored the name
    isJoined,        \* isJoined[p]
    users,           \* users[p]: the roster (React state), a sequence of peerIds
    usersRef,        \* usersRef[p]: usersRef.current, the roster as the handlers last stored it
    connectionsRef,  \* connectionsRef[p]: Map peerId -> DataConnection, as a sequence of entries
    conns,           \* the DataConnection objects, by slot (dialer, acceptor, attempt)
    now,             \* Date.now()
    isSending,       \* isSending[p]
    sentFiles,       \* sentFiles[p]: the sent-file history, newest first
    sends,           \* sends[p]: the sendSingleFile invocations (one FileReader loop each)
    receivedFiles,   \* receivedFiles[p]: Map fileId -> ReceivedFile
    bcast,           \* the arguments of the broadcastToOthers call under test
    http,            \* the request to route.ts under test, with its response
    sender,          \* one-to-one mode, the Sender page: connRef.current, fileRef.current
                     \* and its sendFile invocations (one FileReader loop each)
    receiver         \* receiver[r]: one-to-one mode, the refs and state of Receiver page r

joinVars == <<registry, pc, resp, myNameRef, isJoined>>
rosterVars == <<users, usersRef>>
senderVars == <<isSending, sentFiles, sends>>
oneVars == <<sender, receiver>>
vars == <<registry, pc, resp, myNameRef, isJoined, users, usersRef, connectionsRef, conns,
          now, isSending, sentFiles, sends, receivedFiles, bcast, http, oneVars>>

---------------------------------------------------------------------------
(* Sequences as JavaScript arrays and Maps *)

InList(s, x) == \E i \in 1..Len(s) : s[i] = x

ToSet(s) == {s[i] : i \in 1..Len(s)}

Without(s, x) == SelectSeq(s, LAMBDA e : e # x)

MapHas(m, k) == \E i \in 1..Len(m) : m[i].peer = k

MapGet(m, k) == IF MapHas(m, k) THEN (CHOOSE e \in ToSet(m) : e.peer = k).conn ELSE NoConn

MapSet(m, k, v) ==
    IF MapHas(m, k)
    THEN [i \in 1..Len(m) |-> IF m[i].peer = k THEN [peer |-> k, conn |-> v] ELSE m[i]]
    ELSE Append(m, [peer |-> k, conn |-> v])

MapDelete(m, k) == SelectSeq(m, LAMBDA e : e.peer # k)

---------------------------------------------------------------------------
(* DataConnection objects.  conns[c].d dialed conns[c].a; dst and ast are  *)
(* the states of the two ends ("none" before the connection is created,    *)
(* then "connecting", "open", "closed"); toA and toD are the messages in   *)
(* flight towards the accepting and the dialing end; timer is the dialer's *)
(* pending connection timeout.  The k-th connection that d dials to a has  *)
(* the slot Slot(d, a, k).                                                 *)

Slot(d, a, k) == ((d - 1) * NPeers + (a - 1)) * MaxDials + k

Slots == 1..(NPeers * NPeers * MaxDials)

SlotD(c) == (((c - 1) \div MaxDials) \div NPeers) + 1

SlotA(c) == (((c - 1) \div MaxDials) % NPeers) + 1

FreeConn(c) ==
    [d |-> SlotD(c), a |-> SlotA(c), dst |-> "none", ast |-> "none",
     timer |-> FALSE, toA |-> <<>>, toD |-> <<>>]

\* peerRef.current.connect(t) at p: the next unused slot of (p, t)
NewSlot(cs, p, t) ==
    CHOOSE c \in Slots :
        /\ \E k \in 1..MaxDials : c = Slot(p, t, k) /\ cs[c].dst = "none"
        /\ \A k \in 1..MaxDials : (Slot(p, t, k) < c) => cs[Slot(p, t, k)].dst # "none"

CanDial(cs, p, t) == \E k \in 1..MaxDials : cs[Slot(p, t, k)].dst = "none"

LocalState(c, p) == IF c.d = p THEN c.dst ELSE c.ast

RemotePeer(c, p) == IF c.d = p THEN c.a ELSE c.d

\* conn.send(data) at end p of connection c
ConnSend(c, p, data) ==
    IF c.d = p THEN [c EXCEPT !.toA = Append(@, data)]
               ELSE [c EXCEPT !.toD = Append(@, data)]

\* the connections with an end at p that p has not seen closed
LiveAt(cs, p, q) ==
    {c \in Slots :
        /\ {cs[c].d, cs[c].a} = {p, q}
        /\ LocalState(cs[c], p) \in {"connecting", "open"}}

---------------------------------------------------------------------------
(* broadcastToOthers: one conn.send per registered entry that is not the   *)
(* excluded peer and whose connection is open; a throwing send (the        *)
(* entries numbered in failing) is caught and the loop goes on.            *)

RECURSIVE BroadcastFromAbort(_, _, _, _, _, _, _)
BroadcastFromAbort(i, m, p, data, excludePeerId, failing, cs) ==
    IF i > Len(m) \/ i \in failing THEN cs
    ELSE LET e == m[i]
             sent == e.peer # excludePeerId /\ LocalState(cs[e.conn], p) = "open"
         IN  BroadcastFromAbort(i + 1, m, p, data, excludePeerId, failing,
                 IF sent THEN [cs EXCEPT ![e.conn] = ConnSend(@, p, data)] ELSE cs)

RECURSIVE BroadcastFrom(_, _, _, _, _, _, _)
BroadcastFrom(i, m, p, data, excludePeerId, failing, cs) ==
    IF i > Len(m) THEN cs
    ELSE LET e == m[i]
             sent == /\ e.peer # excludePeerId
                     /\ LocalState(cs[e.conn], p) = "open"
                     /\ i \notin failing
         IN  BroadcastFrom(i + 1, m, p, data, excludePeerId, failing,
                 IF sent THEN [cs EXCEPT ![e.conn] = ConnSend(@, p, data)] ELSE cs)

\* m is connectionsRef.current of p, cs the connections; the result is cs after the sends
BroadcastToOthers(m, p, data, excludePeerId, cs) ==
    BroadcastFrom(1, m, p, data, excludePeerId, {}, cs)

\* bcast before the call under test; afterwards bcast holds the call's data,
\* excludePeerId and failing, and the connections as they were before it
NoCall == [data |-> [type |-> "none"], excludePeerId |-> NoPeer, failing |-> {},
           before |-> <<>>]

---------------------------------------------------------------------------
(* The local effect of a handler at p is computed on a record              *)
(* [cs, cref, us, uref, rf]: the connections, connectionsRef.current of p, *)
(* the users state of p, usersRef.current of p and the receivedFiles Map   *)
(* of p.                                                                   *)

\* a setUsers updater that also stores its result in usersRef.current
SetUsers(st, updated) == [st EXCEPT !.us = updated, !.uref = updated]

SetLocal(c, p, s) == IF c.d = p THEN [c EXCEPT !.dst = s] ELSE [c EXCEPT !.ast = s]

\* conn.on('close') and conn.on('error') of setupConnectionHandlers at p
OnClose(p, remotePeerId, st) ==
    LET cref == MapDelete(st.cref, remotePeerId)
        st1  == SetUsers(st, Without(st.us, remotePeerId))
    IN  [st1 EXCEPT !.cref = cref,
                    !.cs = BroadcastToOthers(cref, p,
                               [type |-> "user-left", peerId |-> remotePeerId], NoPeer,
                               st.cs)]

\* conn.close() called at p: PeerJS emits 'close' at once when the connection
\* was open and nothing when it was not; either way the connection is dead
\* at this end and what was in flight towards it is lost.
ConnClose(p, c, st) ==
    LET wasOpen == LocalState(st.cs[c], p) = "open"
        dead == IF st.cs[c].d = p
                THEN [st.cs[c] EXCEPT !.dst = "closed", !.timer = FALSE, !.toD = <<>>]
                ELSE [st.cs[c] EXCEPT !.ast = "closed", !.toA = <<>>]
        st1 == [st EXCEPT !.cs = [st.cs EXCEPT ![c] = dead]]
    IN  IF wasOpen THEN OnClose(p, RemotePeer(st.cs[c], p), st1) ELSE st1

\* connectToPeer(targetPeerId) at p
ConnectToPeer(p, targetPeerId, st) ==
    IF MapHas(st.cref, targetPeerId)
    THEN st
    ELSE [st EXCEPT !.cs[NewSlot(st.cs, p, targetPeerId)] =
                [@ EXCEPT !.dst = "connecting", !.ast = "connecting", !.timer = TRUE]]

\* joinRoom's loop: otherPeers.forEach(connectToPeer unless registered)
RECURSIVE DialAll(_, _, _, _)
DialAll(i, otherPeers, p, st) ==
    IF i > Len(otherPeers) THEN st
    ELSE DialAll(i + 1, otherPeers, p,
             IF MapHas(st.cref, otherPeers[i]) THEN st
             ELSE ConnectToPeer(p, otherPeers[i], st))

---------------------------------------------------------------------------
(* handleData, membership messages *)

\* a join handler that appends without looking for the peerId
HandleJoinAppend(p, newUser, st) == SetUsers(st, Append(st.us, newUser))

HandleJoin(p, newUser, st) ==
    IF InList(st.us, newUser) THEN st ELSE SetUsers(st, Append(st.us, newUser))

\* merged.set(u.peerId, u) for each u of userList, then Array.from(merged.values()):
\* a key keeps the place of its first insertion
RECURSIVE MergeUsers(_, _)
MergeUsers(us, userList) ==
    IF userList = <<>> THEN us
    ELSE MergeUsers(IF InList(us, Head(userList)) THEN us ELSE Append(us, Head(userList)),
                    Tail(userList))

\* a user-list handler that installs the list in place of the roster
HandleUserListReplace(p, payload, st) ==
    SetUsers(st, MergeUsers(<<>>, Without(payload, p)))

HandleUserList(p, payload, st) ==
    SetUsers(st, MergeUsers(<<>>, st.us \o Without(payload, p)))

HandleUserJoined(p, newUser, st) ==
    LET st1 == HandleJoin(p, newUser, st)
    IN  IF ~MapHas(st1.cref, newUser) /\ newUser # p
        THEN ConnectToPeer(p, newUser, st1)
        ELSE st1

HandleUserLeft(p, peerId, st) ==
    LET st1  == SetUsers(st, Without(st.us, peerId))
        conn == MapGet(st1.cref, peerId)
    IN  IF conn # NoConn
        THEN LET st2 == ConnClose(p, conn, st1)
             IN  [st2 EXCEPT !.cref = MapDelete(st2.cref, peerId)]
        ELSE st1

---------------------------------------------------------------------------
(* handleData, transfer messages.  A chunk payload [name, off, len] stands *)
(* for the len bytes at offset off of the file called name.  A percentage  *)
(* is the exact fraction num / den; den = 0 is JavaScript's NaN (0 / 0)    *)
(* or Infinity.                                                            *)

Undefined == -1

RECURSIVE GCD(_, _)
GCD(x, y) == IF y = 0 THEN x ELSE GCD(y, x % y)

\* the number n / d, in lowest terms
Pct(n, d) ==
    IF d = 0 THEN [num |-> IF n = 0 THEN 0 ELSE 1, den |-> 0]
    ELSE [num |-> n \div GCD(n, d), den |-> d \div GCD(n, d)]

IsNumber(x) == x.den # 0

PctLeq(x, y) == IsNumber(x) /\ IsNumber(y) /\ x.num * y.den <= y.num * x.den

PctEq(x, y) == IsNumber(x) /\ IsNumber(y) /\ x.num * y.den = y.num * x.den

\* metadata that starts the transfer afresh whatever the Map holds
HandleMetadataAfresh(rf, metadata, t) ==
    [f \in DOMAIN rf \cup {metadata.fileId} |->
        IF f = metadata.fileId
        THEN [metadata |-> metadata, progress |-> Pct(0, 1), chunks |-> <<>>,
              receivedSize |-> 0, downloadUrl |-> "null", blob |-> <<>>,
              completed |-> FALSE, timestamp |-> t, completedAt |-> Undefined]
        ELSE rf[f]]

HandleMetadata(rf, metadata, t) ==
    IF metadata.fileId \in DOMAIN rf
    THEN rf
    ELSE rf @@ (metadata.fileId :>
            [metadata |-> metadata, progress |-> Pct(0, 1), chunks |-> <<>>,
             receivedSize |-> 0, downloadUrl |-> "null", blob |-> <<>>,
             completed |-> FALSE, timestamp |-> t, completedAt |-> Undefined])

HandleChunk(rf, fileId, chunk) ==
    IF fileId \in DOMAIN rf /\ ~rf[fileId].completed
    THEN [rf EXCEPT ![fileId] =
            [@ EXCEPT !.chunks = Append(@, chunk),
                      !.receivedSize = @ + chunk.len,
                      !.progress = Pct((rf[fileId].receivedSize + chunk.len) * 100,
                                       rf[fileId].metadata.size)]]
    ELSE rf

\* an end that seals the transfer without stamping the completion time
HandleEndUnstamped(rf, fileId, t) ==
    IF fileId \in DOMAIN rf /\ ~rf[fileId].completed
    THEN [rf EXCEPT ![fileId] =
            [@ EXCEPT !.downloadUrl = "blob:", !.blob = rf[fileId].chunks,
                      !.completed = TRUE, !.progress = Pct(100, 1)]]
    ELSE rf

HandleEnd(rf, fileId, t) ==
    IF fileId \in DOMAIN rf /\ ~rf[fileId].completed
    THEN [rf EXCEPT ![fileId] =
            [@ EXCEPT !.downloadUrl = "blob:", !.blob = rf[fileId].chunks,
                      !.completed = TRUE, !.progress = Pct(100, 1),
                      !.completedAt = t]]
    ELSE rf

HandleData(p, data, t, st) ==
    CASE data.type = "join"        -> HandleJoin(p, data.peerId, st)
      [] data.type = "user-list"   -> HandleUserList(p, data.payload, st)
      [] data.type = "user-joined" -> HandleUserJoined(p, data.peerId, st)
      [] data.type = "user-left"   -> HandleUserLeft(p, data.peerId, st)
      [] data.type = "metadata"    -> [st EXCEPT !.rf = HandleMetadata(st.rf, data.payload, t)]
      [] data.type = "chunk"       -> [st EXCEPT !.rf = HandleChunk(st.rf, data.fileId, data.payload)]
      [] data.type = "end"         -> [st EXCEPT !.rf = HandleEnd(st.rf, data.fileId, t)]
      [] OTHER                     -> st

---------------------------------------------------------------------------
(* The discovery registry (route.ts): a Map roomId -> room, a room being    *)
(* the Map peerId -> PeerEntry; both Maps are sequences in insertion order. *)

StaleMs == 1000 * 60 * 60

\* a forEach that also deletes the entries that are exactly an hour old
PruneRoomFrom(room, t) == SelectSeq(room, LAMBDA e : ~(t - e.updatedAt >= StaleMs))

\* the forEach of pruneRoom over the entries of one room
PruneRoom(room, t) == SelectSeq(room, LAMBDA e : ~(t - e.updatedAt > StaleMs))

RoomHas(room, peerId) == \E i \in 1..Len(room) : room[i].peerId = peerId

\* a set that adds an entry whether or not the room has one for the peerId
RegistryPostAppend(room, peerId, name, t) ==
    Append(room, [peerId |-> peerId, name |-> name, updatedAt |-> t])

\* roomPeers.set(peerId, { peerId, name, updatedAt })
RegistryPost(room, peerId, name, t) ==
    IF RoomHas(room, peerId)
    THEN [i \in 1..Len(room) |->
            IF room[i].peerId = peerId
            THEN [peerId |-> peerId, name |-> name, updatedAt |-> t]
            ELSE room[i]]
    ELSE Append(room, [peerId |-> peerId, name |-> name, updatedAt |-> t])

RegistryDelete(room, peerId) == SelectSeq(room, LAMBDA e : e.peerId # peerId)

PeersOf(room) == [i \in 1..Len(room) |-> room[i].peerId]

HasRoom(reg, roomId) == \E i \in 1..Len(reg) : reg[i].roomId = roomId

\* registry.get(roomId)?.values() ?? []
RoomOf(reg, roomId) ==
    IF HasRoom(reg, roomId)
    THEN (CHOOSE e \in ToSet(reg) : e.roomId = roomId).peers
    ELSE <<>>

\* registry.set(roomId, roomPeers)
SetRoom(reg, roomId, roomPeers) ==
    IF HasRoom(reg, roomId)
    THEN [i \in 1..Len(reg) |->
            IF reg[i].roomId = roomId THEN [roomId |-> roomId, peers |-> roomPeers]
            ELSE reg[i]]
    ELSE Append(reg, [roomId |-> roomId, peers |-> roomPeers])

\* registry.delete(roomId)
DeleteRoom(reg, roomId) == SelectSeq(reg, LAMBDA e : e.roomId # roomId)

\* a room is kept whatever is left of its Map
KeepRoom(reg, roomId, roomPeers) == SetRoom(reg, roomId, roomPeers)

\* a room whose Map has become empty is deleted
DropIfEmpty(reg, roomId, roomPeers) ==
    IF Len(roomPeers) = 0 THEN DeleteRoom(reg, roomId) ELSE SetRoom(reg, roomId, roomPeers)

\* pruneRoom(roomId) at time t
Prune(reg, roomId, t) ==
    IF ~HasRoom(reg, roomId) THEN reg
    ELSE DropIfEmpty(reg, roomId, PruneRoom(RoomOf(reg, roomId), t))

\* a peerId or name that the request body lacks
NoName == ""

GET(reg, roomId, t) ==
    LET reg1 == Prune(reg, roomId, t)
    IN  [registry |-> reg1, status |-> 200, peers |-> RoomOf(reg1, roomId)]

\* a POST that stores the entry before it validates the body
POSTUnchecked(reg, roomId, body, t) ==
    LET roomPeers == RegistryPost(RoomOf(reg, roomId), body.peerId, body.name, t)
    IN  [registry |-> SetRoom(reg, roomId, roomPeers),
         status |-> IF body.peerId = NoPeer \/ body.name = NoName THEN 400 ELSE 200,
         peers |-> roomPeers]

POST(reg, roomId, body, t) ==
    IF body.peerId = NoPeer \/ body.name = NoName
    THEN [registry |-> reg, status |-> 400, peers |-> <<>>]
    ELSE LET roomPeers == RegistryPost(RoomOf(reg, roomId), body.peerId, body.name, t)
         IN  [registry |-> SetRoom(reg, roomId, roomPeers), status |-> 200,
              peers |-> roomPeers]

DELETE(reg, roomId, body) ==
    IF body.peerId = NoPeer
    THEN [registry |-> reg, status |-> 400, peers |-> <<>>]
    ELSE LET reg1 == IF HasRoom(reg, roomId)
                     THEN DropIfEmpty(reg, roomId,
                              RegistryDelete(RoomOf(reg, roomId), body.peerId))
                     ELSE reg
         IN  [registry |-> reg1, status |-> 200, peers |-> RoomOf(reg1, roomId)]

\* the roomId of the page and the name typed into it
RoomId == "room"

MyName(p) == "name"

\* the body of the POST of joinRoom and of the DELETE of handleLeaveRoom
JoinBody(p) == [peerId |-> p, name |-> MyName(p)]

LeaveBody(p) == [peerId |-> p]

\* p has an entry in the room of the page
Registered(reg, p) == RoomHas(RoomOf(reg, RoomId), p)

\* http before any request: n counts the requests handled
NoRequest == [n |-> 0, method |-> "none"]

PeersOfMap(m) == [i \in 1..Len(m) |-> m[i].peer]

---------------------------------------------------------------------------
(* Actions *)

Local(p) == [cs |-> conns, cref |-> connectionsRef[p], us |-> users[p],
             uref |-> usersRef[p], rf |-> receivedFiles[p]]

\* the handler's result st becomes the state of p
Commit(p, st) ==
    /\ conns' = st.cs
    /\ connectionsRef' = [connectionsRef EXCEPT ![p] = st.cref]
    /\ users' = [users EXCEPT ![p] = st.us]
    /\ usersRef' = [usersRef EXCEPT ![p] = st.uref]
    /\ receivedFiles' = [receivedFiles EXCEPT ![p] = st.rf]

\* joinRoom up to the server's handling of the POST (route.ts POST: upsert)
JoinPost(p) ==
    /\ pc[p] = "idle"
    /\ ~isJoined[p]
    /\ \A t \in Peers \ {p} : CanDial(conns, p, t)
    /\ myNameRef' = [myNameRef EXCEPT ![p] = TRUE]
    /\ registry' = POST(registry, RoomId, JoinBody(p), now).registry
    /\ pc' = [pc EXCEPT ![p] = "posted"]
    /\ UNCHANGED <<resp, isJoined, rosterVars, connectionsRef, conns, now, senderVars,
                   receivedFiles, bcast, http, oneVars>>

\* joinRoom when the POST is answered with an error response: the entry is
\* not stored, fetch resolves, and joinRoom goes on to the GET
JoinPostError(p) ==
    /\ pc[p] = "idle"
    /\ ~isJoined[p]
    /\ \A t \in Peers \ {p} : CanDial(conns, p, t)
    /\ myNameRef' = [myNameRef EXCEPT ![p] = TRUE]
    /\ pc' = [pc EXCEPT ![p] = "posted"]
    /\ UNCHANGED <<registry, resp, isJoined, rosterVars, connectionsRef, conns, now,
                   senderVars, receivedFiles, bcast, http, oneVars>>

\* joinRoom when the fetch of the POST rejects (network failure), the request
\* having reached the server (stored) or not: the catch branch
JoinPostFail(p, stored) ==
    /\ pc[p] = "idle"
    /\ ~isJoined[p]
    /\ myNameRef' = [myNameRef EXCEPT ![p] = TRUE]
    /\ registry' = IF stored THEN POST(registry, RoomId, JoinBody(p), now).registry
                   ELSE registry
    /\ isJoined' = [isJoined EXCEPT ![p] = FALSE]
    /\ pc' = [pc EXCEPT ![p] = "failed"]
    /\ UNCHANGED <<resp, rosterVars, connectionsRef, conns, now, senderVars,
                   receivedFiles, bcast, http, oneVars>>

\* joinRoom when the GET fails (the fetch rejects or response.ok is false),
\* the request having been handled by the server (handled) or not: the catch
\* branch
JoinGetFail(p, handled) ==
    /\ pc[p] = "posted"
    /\ registry' = IF handled THEN GET(registry, RoomId, now).registry ELSE registry
    /\ isJoined' = [isJoined EXCEPT ![p] = FALSE]
    /\ pc' = [pc EXCEPT ![p] = "failed"]
    /\ UNCHANGED <<resp, myNameRef, rosterVars, connectionsRef, conns, now, senderVars,
                   receivedFiles, bcast, http, oneVars>>

\* the server's handling of the GET that joinRoom sends after the POST returned
JoinGet(p) ==
    /\ pc[p] = "posted"
    /\ registry' = GET(registry, RoomId, now).registry
    /\ resp' = [resp EXCEPT ![p] = PeersOf(GET(registry, RoomId, now).peers)]
    /\ pc' = [pc EXCEPT ![p] = "fetched"]
    /\ UNCHANGED <<myNameRef, isJoined, rosterVars, connectionsRef, conns, now, senderVars,
                   receivedFiles, bcast, http, oneVars>>

\* time passes
Tick ==
    /\ now < MaxTicks * StepMs
    /\ now' = now + StepMs
    /\ UNCHANGED <<joinVars, rosterVars, connectionsRef, conns, senderVars, receivedFiles,
                   bcast, http, oneVars>>

\* joinRoom after the GET response arrived
JoinInstall(p) ==
    /\ pc[p] = "fetched"
    /\ LET otherPeers == Without(resp[p], p)
           st == DialAll(1, otherPeers, p, SetUsers(Local(p), otherPeers))
       IN  Commit(p, st)
    /\ isJoined' = [isJoined EXCEPT ![p] = TRUE]
    /\ pc' = [pc EXCEPT ![p] = "joined"]
    /\ resp' = [resp EXCEPT ![p] = <<>>]
    /\ UNCHANGED <<registry, myNameRef, now, senderVars, bcast, http, oneVars>>

\* an 'open' handler whose user-list is self plus the whole roster
OpenUserListWhole(p, remotePeerId, c, st) ==
    IF myNameRef[p]
    THEN [st EXCEPT !.cs[c] = ConnSend(@, p,
             [type |-> "user-list", payload |-> <<p>> \o st.uref])]
    ELSE st

\* the user-list sent by the 'open' handler of setupConnectionHandlers at p
OpenUserList(p, remotePeerId, c, st) ==
    IF myNameRef[p]
    THEN [st EXCEPT !.cs[c] = ConnSend(@, p,
             [type |-> "user-list", payload |-> <<p>> \o Without(st.uref, remotePeerId)])]
    ELSE st

\* 'open' at the dialing end: the handler of setupConnectionHandlers, then the
\* handler of connectToPeer (timeout cleared, join sent)
OpenD(c) ==
    /\ conns[c].dst = "connecting"
    /\ conns[c].ast # "closed"
    /\ pc[conns[c].a] # "gone"
    /\ LET p   == conns[c].d
           st0 == Local(p)
           st1 == [st0 EXCEPT !.cs[c].dst = "open", !.cs[c].timer = FALSE,
                              !.cref = MapSet(st0.cref, conns[c].a, c)]
           st2 == OpenUserList(p, conns[c].a, c, st1)
           st3 == [st2 EXCEPT !.cs[c] = ConnSend(@, p, [type |-> "join", peerId |-> p])]
       IN  Commit(p, st3)
    /\ UNCHANGED <<joinVars, now, senderVars, bcast, http, oneVars>>

\* 'open' at the accepting end (the connection came through peer.on('connection'))
OpenA(c) ==
    /\ conns[c].ast = "connecting"
    /\ conns[c].dst # "closed"
    /\ pc[conns[c].a] # "gone"
    /\ LET p   == conns[c].a
           st0 == Local(p)
           st1 == [st0 EXCEPT !.cs[c].ast = "open",
                              !.cref = MapSet(st0.cref, conns[c].d, c)]
       IN  Commit(p, OpenUserList(p, conns[c].d, c, st1))
    /\ UNCHANGED <<joinVars, now, senderVars, bcast, http, oneVars>>

\* conn.on('data') at the accepting end (toDialer = FALSE) or the dialing end
Deliver(c, toDialer) ==
    LET p == IF toDialer THEN conns[c].d ELSE conns[c].a
        q == IF toDialer THEN conns[c].toD ELSE conns[c].toA
    IN  /\ q # <<>>
        /\ LocalState(conns[c], p) = "open"
        /\ LET cs == IF toDialer THEN [conns EXCEPT ![c].toD = Tail(q)]
                                 ELSE [conns EXCEPT ![c].toA = Tail(q)]
           IN  Commit(p, HandleData(p, Head(q), now, [Local(p) EXCEPT !.cs = cs]))
        /\ UNCHANGED <<joinVars, now, senderVars, bcast, http, oneVars>>

\* 'close' at an end whose other end has closed the connection
PeerClosed(c, atDialer) ==
    LET p == IF atDialer THEN conns[c].d ELSE conns[c].a
    IN  /\ LocalState(conns[c], p) = "open"
        /\ (IF atDialer THEN conns[c].ast ELSE conns[c].dst) = "closed"
        /\ Commit(p, ConnClose(p, c, Local(p)))
        /\ UNCHANGED <<joinVars, now, senderVars, bcast, http, oneVars>>

\* the channel c, open at both ends, fails: 'close' (or 'error') fires at one
\* end; the other end notices by PeerClosed
ChannelFail(c, atDialer) ==
    LET p == IF atDialer THEN conns[c].d ELSE conns[c].a
    IN  /\ conns[c].dst = "open"
        /\ conns[c].ast = "open"
        /\ Commit(p, ConnClose(p, c, Local(p)))
        /\ UNCHANGED <<joinVars, now, senderVars, bcast, http, oneVars>>

\* a timeout callback that forgets the attempt without closing the connection
ConnectionTimeoutForget(p, targetPeerId, c, st) ==
    IF LocalState(st.cs[c], p) # "open"
    THEN [st EXCEPT !.cref = MapDelete(st.cref, targetPeerId)]
    ELSE st

\* the connectionTimeout callback of connectToPeer(targetPeerId) for connection c
ConnectionTimeout(p, targetPeerId, c, st) ==
    IF LocalState(st.cs[c], p) # "open"
    THEN LET st1 == ConnClose(p, c, st)
         IN  [st1 EXCEPT !.cref = MapDelete(st1.cref, targetPeerId)]
    ELSE st

\* the connection timeout of c fires
Timeout(c) ==
    /\ conns[c].timer
    /\ LET p == conns[c].d
           st0 == [Local(p) EXCEPT !.cs[c].timer = FALSE]
       IN  Commit(p, ConnectionTimeout(p, conns[c].a, c, st0))
    /\ UNCHANGED <<joinVars, now, senderVars, bcast, http, oneVars>>

\* handleLeaveRoom up to the DELETE request: user-left to every registered peer
LeaveStart(p) ==
    /\ pc[p] = "joined"
    /\ isJoined[p]
    /\ conns' = BroadcastToOthers(connectionsRef[p], p,
                     [type |-> "user-left", peerId |-> p], NoPeer, conns)
    /\ pc' = [pc EXCEPT ![p] = "leaving"]
    /\ UNCHANGED <<registry, resp, myNameRef, isJoined, rosterVars, connectionsRef, now,
                   senderVars, receivedFiles, bcast, http, oneVars>>

\* the server's handling of the DELETE (route.ts DELETE)
LeaveDelete(p) ==
    /\ pc[p] = "leaving"
    /\ registry' = DELETE(registry, RoomId, LeaveBody(p)).registry
    /\ pc' = [pc EXCEPT ![p] = "deleted"]
    /\ UNCHANGED <<resp, myNameRef, isJoined, rosterVars, connectionsRef, conns, now,
                   senderVars, receivedFiles, bcast, http, oneVars>>

\* handleLeaveRoom when the DELETE request fails: the catch branch
LeaveFail(p) ==
    /\ pc[p] = "leaving"
    /\ pc' = [pc EXCEPT ![p] = "joined"]
    /\ UNCHANGED <<registry, resp, myNameRef, isJoined, rosterVars, connectionsRef, conns,
                   now, senderVars, receivedFiles, bcast, http, oneVars>>

\* connectionsRef.current.forEach((conn) => conn.close()) over the entries m
RECURSIVE CloseAll(_, _, _, _)
CloseAll(i, m, p, st) ==
    IF i > Len(m) THEN st
    ELSE CloseAll(i + 1, m, p,
             IF MapGet(st.cref, m[i].peer) = m[i].conn
             THEN ConnClose(p, m[i].conn, st)
             ELSE st)

\* handleLeaveRoom after the DELETE response arrived
LeaveFinish(p) ==
    /\ pc[p] = "deleted"
    /\ LET st1 == CloseAll(1, connectionsRef[p], p, Local(p))
       IN  Commit(p, [st1 EXCEPT !.cref = <<>>, !.us = <<>>, !.rf = << >>])
    /\ isJoined' = [isJoined EXCEPT ![p] = FALSE]
    /\ sentFiles' = [sentFiles EXCEPT ![p] = <<>>]
    /\ pc' = [pc EXCEPT ![p] = "idle"]
    /\ UNCHANGED <<registry, resp, myNameRef, now, isSending, sends, bcast, http, oneVars>>

\* peer.destroy() at p: every connection of p is closed at p's end
Destroy(cs, p) ==
    [c \in Slots |->
        IF cs[c].d = p /\ cs[c].dst # "none"
        THEN [cs[c] EXCEPT !.dst = "closed", !.timer = FALSE, !.toD = <<>>]
        ELSE IF cs[c].a = p /\ cs[c].ast # "none"
             THEN [cs[c] EXCEPT !.ast = "closed", !.toA = <<>>]
             ELSE cs[c]]

\* the page of p is closed: handleBeforeUnload (user-left broadcast and DELETE
\* when joined), then the unmount destroys the Peer.  The broadcast gets out
\* (flushed) or not, and the DELETE reaches the server (deleted) or not.
Teardown(p, flushed, deleted) ==
    /\ pc[p] # "gone"
    /\ conns' = Destroy(IF isJoined[p] /\ flushed
                        THEN BroadcastToOthers(connectionsRef[p], p,
                                 [type |-> "user-left", peerId |-> p], NoPeer, conns)
                        ELSE conns, p)
    /\ registry' = IF isJoined[p] /\ deleted
                   THEN DELETE(registry, RoomId, LeaveBody(p)).registry
                   ELSE registry
    /\ pc' = [pc EXCEPT ![p] = "gone"]
    /\ resp' = [resp EXCEPT ![p] = <<>>]
    /\ myNameRef' = [myNameRef EXCEPT ![p] = FALSE]
    /\ isJoined' = [isJoined EXCEPT ![p] = FALSE]
    /\ users' = [users EXCEPT ![p] = <<>>]
    /\ usersRef' = [usersRef EXCEPT ![p] = <<>>]
    /\ connectionsRef' = [connectionsRef EXCEPT ![p] = <<>>]
    /\ isSending' = [isSending EXCEPT ![p] = FALSE]
    /\ sentFiles' = [sentFiles EXCEPT ![p] = <<>>]
    /\ sends' = [sends EXCEPT ![p] = <<>>]
    /\ receivedFiles' = [receivedFiles EXCEPT ![p] = << >>]
    /\ UNCHANGED <<now, bcast, http, oneVars>>

---------------------------------------------------------------------------
(* Sending.  A sendSingleFile call is a record of sends[p]: its fileId,    *)
(* its File, whether it is a resend, the offset of its FileReader loop and *)
(* its state ("reading" while a readAsArrayBuffer is outstanding, then     *)
(* "done" or "aborted").  The sender's part of a handler is computed on a  *)
(* record [cs, isSending, sentFiles, sends].                               *)

Min(x, y) == IF x <= y THEN x ELSE y

RECURSIVE SendCount(_)
SendCount(p) == IF p = 0 THEN 0 ELSE Len(sends[p]) + SendCount(p - 1)

Sender(p) == [cs |-> conns, isSending |-> isSending[p], sentFiles |-> sentFiles[p],
              sends |-> sends[p]]

CommitSender(p, s) ==
    /\ conns' = s.cs
    /\ isSending' = [isSending EXCEPT ![p] = s.isSending]
    /\ sentFiles' = [sentFiles EXCEPT ![p] = s.sentFiles]
    /\ sends' = [sends EXCEPT ![p] = s.sends]

\* `${myPeerId}_${Date.now()}_${file.name}`
NewFileId(p, t, file) == <<p, t, file.name>>

SendSingleFile(p, file, isResend, fileId, s) ==
    IF Len(connectionsRef[p]) = 0
    THEN s
    ELSE LET metadata == [name |-> file.name, size |-> file.size, senderId |-> p,
                          fileId |-> fileId]
         IN  [cs        |-> BroadcastToOthers(connectionsRef[p], p,
                                [type |-> "metadata", payload |-> metadata], NoPeer, s.cs),
              isSending |-> TRUE,
              sentFiles |-> IF isResend THEN s.sentFiles
                            ELSE <<[metadata |-> metadata, progress |-> Pct(0, 1),
                                    completed |-> FALSE, downloadUrl |-> ""]>>
                                 \o s.sentFiles,
              sends     |-> Append(s.sends,
                                [fileId |-> fileId, file |-> file, isResend |-> isResend,
                                 offset |-> 0, st |-> "reading"])]

\* selectedFiles.forEach((file) => sendSingleFile(file))
RECURSIVE SendEach(_, _, _, _, _)
SendEach(i, selectedFiles, p, t, s) ==
    IF i > Len(selectedFiles) THEN s
    ELSE SendEach(i + 1, selectedFiles, p, t,
             SendSingleFile(p, selectedFiles[i], FALSE, NewFileId(p, t, selectedFiles[i]), s))

\* the choices of the file input: one to MaxSelect different files, in some order
Selections ==
    {sel \in UNION {[1..n -> Files] : n \in 1..MaxSelect} :
        \A i \in 1..Len(sel) : \A j \in 1..Len(sel) : (i # j) => sel[i] # sel[j]}

\* the Send button: sendFileToAll.  The press takes a millisecond.
SendFileToAll(p, selectedFiles) ==
    /\ isJoined[p]
    /\ Len(selectedFiles) # 0
    /\ Len(connectionsRef[p]) # 0
    /\ SendCount(NPeers) + Len(selectedFiles) <= MaxSends
    /\ CommitSender(p, SendEach(1, selectedFiles, p, now, Sender(p)))
    /\ now' = now + 1
    /\ UNCHANGED <<joinVars, rosterVars, connectionsRef, receivedFiles, bcast, http, oneVars>>

\* the resend button of the j-th entry of the history; disabled while sending
PressResend(p, j) ==
    /\ isJoined[p]
    /\ j \in 1..Len(sentFiles[p])
    /\ ~(Len(connectionsRef[p]) = 0 \/ isSending[p])
    /\ SendCount(NPeers) + 1 <= MaxSends
    /\ LET md == sentFiles[p][j].metadata
       IN  CommitSender(p, SendSingleFile(p, [name |-> md.name, size |-> md.size], TRUE,
                                          md.fileId, Sender(p)))
    /\ now' = now + 1
    /\ UNCHANGED <<joinVars, rosterVars, connectionsRef, receivedFiles, bcast, http, oneVars>>

\* sentFiles.map: every entry with this fileId gets the new fields
SetProgress(sf, fileId, progress, completed) ==
    [k \in 1..Len(sf) |->
        IF sf[k].metadata.fileId = fileId
        THEN [sf[k] EXCEPT !.progress = progress,
                           !.completed = IF completed THEN TRUE ELSE @,
                           !.downloadUrl = IF completed THEN "blob:" ELSE @]
        ELSE sf[k]]

\* a slice that always has CHUNK_SIZE bytes
SliceFull(size, o) == CHUNK_SIZE

\* readSlice: the byte length of file.slice(o, o + CHUNK_SIZE) of a file of size bytes
ReadSlice(size, o) == Min(CHUNK_SIZE, size - o)

\* fileReader.onload of the i-th sendSingleFile call of p
ReadLoad(p, i) ==
    /\ i \in 1..Len(sends[p])
    /\ sends[p][i].st = "reading"
    /\ LET snd    == sends[p][i]
           size   == snd.file.size
           len    == ReadSlice(size, snd.offset)
           offset == snd.offset + len
           cs1    == BroadcastToOthers(connectionsRef[p], p,
                         [type |-> "chunk",
                          payload |-> [name |-> snd.file.name, off |-> snd.offset, len |-> len],
                          fileId |-> snd.fileId], NoPeer, conns)
           sf1    == IF snd.isResend THEN sentFiles[p]
                     ELSE SetProgress(sentFiles[p], snd.fileId, Pct(offset * 100, size), FALSE)
       IN  IF offset < size
           THEN CommitSender(p,
                    [cs |-> cs1, isSending |-> isSending[p], sentFiles |-> sf1,
                     sends |-> [sends[p] EXCEPT ![i].offset = offset]])
           ELSE CommitSender(p,
                    [cs |-> BroadcastToOthers(connectionsRef[p], p,
                                [type |-> "end", fileId |-> snd.fileId], NoPeer, cs1),
                     isSending |-> FALSE,
                     sentFiles |-> IF snd.isResend THEN sf1
                                   ELSE SetProgress(sf1, snd.fileId, Pct(100, 1), TRUE),
                     sends |-> [sends[p] EXCEPT ![i].offset = offset, ![i].st = "done"]])
    /\ UNCHANGED <<joinVars, rosterVars, connectionsRef, now, receivedFiles, bcast, http, oneVars>>

\* an onerror handler that closes the transfer with an end message
ReadErrorEnd(p, i) ==
    /\ i \in 1..Len(sends[p])
    /\ sends[p][i].st = "reading"
    /\ conns' = BroadcastToOthers(connectionsRef[p], p,
                     [type |-> "end", fileId |-> sends[p][i].fileId], NoPeer, conns)
    /\ isSending' = [isSending EXCEPT ![p] = FALSE]
    /\ sends' = [sends EXCEPT ![p][i].st = "aborted"]
    /\ UNCHANGED <<joinVars, rosterVars, connectionsRef, now, sentFiles,
                   receivedFiles, bcast, http, oneVars>>

\* fileReader.onerror of the i-th sendSingleFile call of p
ReadError(p, i) ==
    /\ i \in 1..Len(sends[p])
    /\ sends[p][i].st = "reading"
    /\ isSending' = [isSending EXCEPT ![p] = FALSE]
    /\ sends' = [sends EXCEPT ![p][i].st = "aborted"]
    /\ UNCHANGED <<joinVars, rosterVars, connectionsRef, conns, now, sentFiles,
                   receivedFiles, bcast, http, oneVars>>

---------------------------------------------------------------------------
(* One-to-one mode: the Sender page (part_001) and the Receiver pages      *)
(* (Receiver.tsx).  The Sender's Peer is TheSender; every other peer is a  *)
(* Receiver page opened on the Sender's link, which dials the Sender once. *)
(* sender.fileReaders holds the sendFile invocations: the File, the conn   *)
(* argument, the offset of the FileReader loop, its state ("reading"       *)
(* while a readAsArrayBuffer is outstanding, "idle" after an onload that   *)
(* issued no further read, "done", "aborted") and the connection that      *)
(* carried its end message.  receiver[r].blob is the content of the Blob   *)
(* behind downloadUrl.                                                     *)

TheSender == 1

Receivers == Peers \ {TheSender}

NoFile == [name |-> "", size |-> 0]

InitSender == [connRef |-> NoConn, fileRef |-> NoFile, fileReaders |-> <<>>]

InitReceiver ==
    [fileInfo |-> NoFile, fileInfoRef |-> NoFile, receivedChunksRef |-> <<>>,
     receivedSizeRef |-> 0, downloadUrl |-> "null", blob |-> <<>>]

\* the variables of the rooms but for the connections
roomVars == <<joinVars, rosterVars, connectionsRef, now, senderVars, receivedFiles,
              bcast, http>>

\* the Receiver's connection to the Sender
ConnOf(r) == Slot(r, TheSender, 1)

\* sendFile(fileToSend, conn) of the Sender, on the record [sender, cs]
SendFile(fileToSend, conn, one) ==
    IF conn = NoConn \/ one.cs[conn].ast # "open"
    THEN one
    ELSE [sender |-> [one.sender EXCEPT !.fileReaders =
                         Append(@, [file |-> fileToSend, conn |-> conn, offset |-> 0,
                                    st |-> "reading", end |-> NoConn])],
          cs     |-> [one.cs EXCEPT ![conn] =
                         ConnSend(@, TheSender,
                             [type |-> "metadata", payload |-> fileToSend])]]

CommitOne(one) ==
    /\ sender' = one.sender
    /\ conns' = one.cs

\* the file input of the Sender: handleFileChange; one file is selected
HandleFileChange(selectedFile) ==
    /\ sender.fileRef = NoFile
    /\ LET one == [sender |-> [sender EXCEPT !.fileRef = selectedFile], cs |-> conns]
       IN  IF sender.connRef # NoConn /\ conns[sender.connRef].ast = "open"
           THEN CommitOne(SendFile(selectedFile, sender.connRef, one))
           ELSE CommitOne(one)
    /\ UNCHANGED <<roomVars, receiver>>

\* peer.on('open') of the Receiver: onOpen connects to remotePeerId
ReceiverOnOpen(r) ==
    /\ conns[ConnOf(r)].dst = "none"
    /\ conns' = [conns EXCEPT ![ConnOf(r)].dst = "connecting"]
    /\ UNCHANGED <<roomVars, oneVars>>

\* peer.on('connection') of the Sender
SenderOnConnection(c) ==
    /\ conns[c].a = TheSender
    /\ conns[c].dst = "connecting"
    /\ conns[c].ast = "none"
    /\ conns' = [conns EXCEPT ![c].ast = "connecting"]
    /\ sender' = [sender EXCEPT !.connRef = c]
    /\ UNCHANGED <<roomVars, receiver>>

\* conn.on('open') of the Sender
SenderConnOpen(c) ==
    /\ conns[c].a = TheSender
    /\ conns[c].ast = "connecting"
    /\ conns[c].dst # "closed"
    /\ LET one == [sender |-> sender, cs |-> [conns EXCEPT ![c].ast = "open"]]
       IN  IF sender.fileRef # NoFile
           THEN CommitOne(SendFile(sender.fileRef, c, one))
           ELSE CommitOne(one)
    /\ UNCHANGED <<roomVars, receiver>>

\* conn.on('open') of the Receiver (a status line only)
ReceiverConnOpen(r) ==
    /\ conns[ConnOf(r)].dst = "connecting"
    /\ conns[ConnOf(r)].ast \in {"connecting", "open"}
    /\ conns' = [conns EXCEPT ![ConnOf(r)].dst = "open"]
    /\ UNCHANGED <<roomVars, oneVars>>

\* fileReader.onload of the i-th sendFile call: the chunk and the end go to
\* connRef.current; nothing happens if that is not an open connection
FileReaderOnload(i) ==
    /\ i \in 1..Len(sender.fileReaders)
    /\ sender.fileReaders[i].st = "reading"
    /\ LET rd     == sender.fileReaders[i]
           c      == sender.connRef
           len    == ReadSlice(rd.file.size, rd.offset)
           offset == rd.offset + len
           cs1    == [conns EXCEPT ![c] = ConnSend(@, TheSender,
                         [type |-> "chunk",
                          payload |-> [name |-> rd.file.name, off |-> rd.offset,
                                       len |-> len]])]
       IN  IF c # NoConn /\ conns[c].ast = "open"
           THEN IF offset < rd.file.size
                THEN /\ conns' = cs1
                     /\ sender' = [sender EXCEPT !.fileReaders[i].offset = offset]
                ELSE /\ conns' = [cs1 EXCEPT ![c] = ConnSend(@, TheSender, [type |-> "end"])]
                     /\ sender' = [sender EXCEPT !.fileReaders[i].offset = offset,
                                                 !.fileReaders[i].st = "done",
                                                 !.fileReaders[i].end = c]
           ELSE /\ conns' = conns
                /\ sender' = [sender EXCEPT !.fileReaders[i].st = "idle"]
    /\ UNCHANGED <<roomVars, receiver>>

\* fileReader.onerror of the i-th sendFile call
FileReaderOnerror(i) ==
    /\ i \in 1..Len(sender.fileReaders)
    /\ sender.fileReaders[i].st = "reading"
    /\ sender' = [sender EXCEPT !.fileReaders[i].st = "aborted"]
    /\ UNCHANGED <<roomVars, conns, receiver>>

\* onData of the Receiver, on its record rc
OnData(rc, peerData) ==
    CASE peerData.type = "metadata" ->
            [rc EXCEPT !.fileInfoRef = peerData.payload, !.fileInfo = peerData.payload,
                       !.receivedChunksRef = <<>>, !.receivedSizeRef = 0,
                       !.downloadUrl = "null", !.blob = <<>>]
      [] peerData.type = "chunk" ->
            [rc EXCEPT !.receivedChunksRef = Append(@, peerData.payload),
                       !.receivedSizeRef = @ + peerData.payload.len]
      [] peerData.type = "end" ->
            IF rc.fileInfoRef # NoFile
            THEN [rc EXCEPT !.downloadUrl = "blob:", !.blob = rc.receivedChunksRef,
                            !.fileInfoRef = NoFile]
            ELSE rc
      [] OTHER -> rc

\* conn.on('data') of the Receiver
ReceiverData(r) ==
    /\ conns[ConnOf(r)].dst = "open"
    /\ conns[ConnOf(r)].toD # <<>>
    /\ receiver' = [receiver EXCEPT ![r] = OnData(@, Head(conns[ConnOf(r)].toD))]
    /\ conns' = [conns EXCEPT ![ConnOf(r)].toD = Tail(@)]
    /\ UNCHANGED <<roomVars, sender>>

\* the Receiver page is closed: the cleanup closes connRef.current
ReceiverUnmount(r) ==
    /\ conns[ConnOf(r)].dst \in {"connecting", "open"}
    /\ conns' = [conns EXCEPT ![ConnOf(r)].dst = "closed"]
    /\ UNCHANGED <<roomVars, oneVars>>

\* conn.on('close') of the Sender
SenderConnClose(c) ==
    /\ conns[c].a = TheSender
    /\ conns[c].ast \in {"connecting", "open"}
    /\ conns[c].dst = "closed"
    /\ conns' = [conns EXCEPT ![c].ast = "closed"]
    /\ sender' = [sender EXCEPT !.connRef = NoConn]
    /\ UNCHANGED <<roomVars, receiver>>

---------------------------------------------------------------------------
(* The room before anybody joined: every Room component is mounted and its *)
(* Peer is open (myPeerId assigned), nobody is registered.                 *)

Init ==
    /\ registry = <<>>
    /\ pc = [p \in Peers |-> "idle"]
    /\ resp = [p \in Peers |-> <<>>]
    /\ myNameRef = [p \in Peers |-> FALSE]
    /\ isJoined = [p \in Peers |-> FALSE]
    /\ users = [p \in Peers |-> <<>>]
    /\ usersRef = [p \in Peers |-> <<>>]
    /\ connectionsRef = [p \in Peers |-> <<>>]
    /\ conns = [c \in Slots |-> FreeConn(c)]
    /\ now = 0
    /\ isSending = [p \in Peers |-> FALSE]
    /\ sentFiles = [p \in Peers |-> <<>>]
    /\ sends = [p \in Peers |-> <<>>]
    /\ receivedFiles = [p \in Peers |-> << >>]
    /\ bcast = NoCall
    /\ http = NoRequest
    /\ sender = InitSender
    /\ receiver = [r \in Peers |-> InitReceiver]

(* Joining only: every participant joins at most once, every dialed        *)
(* connection opens at both ends and every message is delivered.           *)
NextJoin ==
    \/ \E p \in JoinPeers : JoinPost(p)
    \/ \E p \in JoinPeers : JoinGet(p)
    \/ \E p \in JoinPeers : JoinInstall(p)
    \/ \E c \in Slots : OpenD(c)
    \/ \E c \in Slots : OpenA(c)
    \/ \E c \in Slots : \E toDialer \in BOOLEAN : Deliver(c, toDialer)

SpecJoin == Init /\ [][NextJoin]_vars

(* Nothing is in progress: no join between its POST and its end, no        *)
(* connection between its creation and its opening at both ends, no        *)
(* message in flight.                                                      *)
Quiescent ==
    /\ \A p \in Peers : pc[p] \in {"idle", "joined"}
    /\ \A c \in Slots :
          /\ conns[c].dst # "connecting"
          /\ conns[c].ast # "connecting"
          /\ conns[c].toA = <<>>
          /\ conns[c].toD = <<>>

(* Joining one after another: a participant starts to join, and time       *)
(* passes, only while nothing is in progress.                              *)
NextSeq ==
    \/ \E p \in Peers : Quiescent /\ JoinPost(p)
    \/ Quiescent /\ Tick
    \/ \E p \in Peers : JoinGet(p)
    \/ \E p \in Peers : JoinInstall(p)
    \/ \E c \in Slots : OpenD(c)
    \/ \E c \in Slots : OpenA(c)
    \/ \E c \in Slots : \E toDialer \in BOOLEAN : Deliver(c, toDialer)

SpecSeq == Init /\ [][NextSeq]_vars

\* no join is in progress, no connection is being set up and no membership
\* message is in flight
MembershipQuiet ==
    /\ \A p \in Peers : pc[p] \in {"idle", "joined"}
    /\ \A c \in Slots :
          /\ conns[c].dst # "connecting"
          /\ conns[c].ast # "connecting"
          /\ \A k \in 1..Len(conns[c].toA) :
                conns[c].toA[k].type \in {"metadata", "chunk", "end"}
          /\ \A k \in 1..Len(conns[c].toD) :
                conns[c].toD[k].type \in {"metadata", "chunk", "end"}

(* Transfers in a room whose participants join one after another.  The     *)
(* Send and resend buttons are pressed while the membership protocol is    *)
(* quiet; chunks are read and messages delivered at any time.              *)
NextTransfer ==
    \/ \E p \in JoinPeers : Quiescent /\ JoinPost(p)
    \/ \E p \in JoinPeers : JoinGet(p)
    \/ \E p \in JoinPeers : JoinInstall(p)
    \/ \E c \in Slots : OpenD(c)
    \/ \E c \in Slots : OpenA(c)
    \/ \E c \in Slots : \E toDialer \in BOOLEAN : Deliver(c, toDialer)
    \/ \E p \in JoinPeers : \E sel \in Selections : MembershipQuiet /\ SendFileToAll(p, sel)
    \/ \E p \in JoinPeers : \E j \in 1..MaxSends : MembershipQuiet /\ PressResend(p, j)
    \/ \E p \in JoinPeers : \E i \in 1..MaxSends : ReadLoad(p, i)
    \/ \E p \in JoinPeers : \E i \in 1..MaxSends : ReadError(p, i)

SpecTransfer == Init /\ [][NextTransfer]_vars

(* Transfers in a room whose participants may join at the same time, so    *)
(* that each dials the other.                                              *)
NextCross ==
    \/ \E p \in JoinPeers : JoinPost(p)
    \/ \E p \in JoinPeers : JoinGet(p)
    \/ \E p \in JoinPeers : JoinInstall(p)
    \/ \E c \in Slots : OpenD(c)
    \/ \E c \in Slots : OpenA(c)
    \/ \E c \in Slots : \E toDialer \in BOOLEAN : Deliver(c, toDialer)
    \/ \E p \in JoinPeers : \E sel \in Selections : MembershipQuiet /\ SendFileToAll(p, sel)
    \/ \E p \in JoinPeers : \E j \in 1..MaxSends : MembershipQuiet /\ PressResend(p, j)
    \/ \E p \in JoinPeers : \E i \in 1..MaxSends : ReadLoad(p, i)
    \/ \E p \in JoinPeers : \E i \in 1..MaxSends : ReadError(p, i)

SpecCross == Init /\ [][NextCross]_vars

\* a file of another folder with the name of a file of Files: a File carries
\* its name only, not its path
SameName == [name |-> "a", size |-> CHUNK_SIZE]

\* the choices of the file input (multiple) when the dialog lists files of
\* several folders
NamedSelections ==
    {sel \in UNION {[1..n -> Files \cup {SameName}] : n \in 1..MaxSelect} :
        \A i \in 1..Len(sel) : \A j \in 1..Len(sel) : (i # j) => sel[i] # sel[j]}

(* Transfers of files chosen from several folders.                         *)
NextNames ==
    \/ \E p \in JoinPeers : Quiescent /\ JoinPost(p)
    \/ \E p \in JoinPeers : JoinGet(p)
    \/ \E p \in JoinPeers : JoinInstall(p)
    \/ \E c \in Slots : OpenD(c)
    \/ \E c \in Slots : OpenA(c)
    \/ \E c \in Slots : \E toDialer \in BOOLEAN : Deliver(c, toDialer)
    \/ \E p \in JoinPeers : \E sel \in NamedSelections :
          MembershipQuiet /\ SendFileToAll(p, sel)
    \/ \E p \in JoinPeers : \E i \in 1..MaxSends : ReadLoad(p, i)

SpecNames == Init /\ [][NextNames]_vars

\* files of the sizes around the multiples of CHUNK_SIZE, and of 150,000 bytes
SizedFiles ==
    {[name |-> "s", size |-> n] :
        n \in {1, CHUNK_SIZE - 1, CHUNK_SIZE, CHUNK_SIZE + 1, 2 * CHUNK_SIZE, 150000}}

(* One file of any of these sizes is sent in a room of two.                *)
NextChunks ==
    \/ \E p \in JoinPeers : Quiescent /\ JoinPost(p)
    \/ \E p \in JoinPeers : JoinGet(p)
    \/ \E p \in JoinPeers : JoinInstall(p)
    \/ \E c \in Slots : OpenD(c)
    \/ \E c \in Slots : OpenA(c)
    \/ \E c \in Slots : \E toDialer \in BOOLEAN : Deliver(c, toDialer)
    \/ \E p \in JoinPeers : \E file \in SizedFiles :
          MembershipQuiet /\ SendCount(NPeers) = 0 /\ SendFileToAll(p, <<file>>)
    \/ \E p \in JoinPeers : \E i \in 1..MaxSends : ReadLoad(p, i)

SpecChunks == Init /\ [][NextChunks]_vars

(* Joining when the discovery requests may fail.                           *)
NextJoinFail ==
    \/ \E p \in JoinPeers : JoinPost(p)
    \/ \E p \in JoinPeers : JoinPostError(p)
    \/ \E p \in JoinPeers : \E stored \in BOOLEAN : JoinPostFail(p, stored)
    \/ \E p \in JoinPeers : JoinGet(p)
    \/ \E p \in JoinPeers : \E handled \in BOOLEAN : JoinGetFail(p, handled)
    \/ \E p \in JoinPeers : JoinInstall(p)
    \/ \E c \in Slots : OpenD(c)
    \/ \E c \in Slots : OpenA(c)
    \/ \E c \in Slots : \E toDialer \in BOOLEAN : Deliver(c, toDialer)

SpecJoinFail == Init /\ [][NextJoinFail]_vars

(* The route handlers on their own: requests for two rooms, with and       *)
(* without the fields of the body, at times half an hour apart and a      *)
(* millisecond more.                                                       *)
Rooms == {RoomId, "other"}

Names == {MyName(1), "alias"}

ServerPeers == 1..NJoin

PostBodies == [peerId : ServerPeers \cup {NoPeer}, name : Names \cup {NoName}]

DeleteBodies == [peerId : ServerPeers \cup {NoPeer}]

\* the request is answered with response r
Respond(method, roomId, body, r) ==
    /\ http.n < MaxRequests
    /\ registry' = r.registry
    /\ http' = [n |-> http.n + 1, method |-> method, roomId |-> roomId, body |-> body,
                at |-> now, before |-> registry, status |-> r.status, peers |-> r.peers]
    /\ UNCHANGED <<pc, resp, myNameRef, isJoined, rosterVars, connectionsRef, conns, now,
                   senderVars, receivedFiles, bcast, oneVars>>

ServerGet(roomId) == Respond("GET", roomId, [peerId |-> NoPeer], GET(registry, roomId, now))

ServerPost(roomId, body) == Respond("POST", roomId, body, POST(registry, roomId, body, now))

ServerDelete(roomId, body) == Respond("DELETE", roomId, body, DELETE(registry, roomId, body))

\* a millisecond passes, once after each full step of the clock
TickMs ==
    /\ now % StepMs = 0
    /\ now' = now + 1
    /\ UNCHANGED <<joinVars, rosterVars, connectionsRef, conns, senderVars, receivedFiles,
                   bcast, http, oneVars>>

NextServer ==
    \/ \E roomId \in Rooms : ServerGet(roomId)
    \/ \E roomId \in Rooms : \E body \in PostBodies : ServerPost(roomId, body)
    \/ \E roomId \in Rooms : \E body \in DeleteBodies : ServerDelete(roomId, body)
    \/ Tick
    \/ TickMs

SpecServer == Init /\ [][NextServer]_vars

(* The room after participants 1 and 2 joined one after the other and 1    *)
(* sent the first of the Files to 2 completely: the channel that 2 dialed  *)
(* is open, the history entry of 1 is completed, 2 has sealed the file and *)
(* the FileReader of the send is finished.                                 *)
FirstFile == CHOOSE file \in Files : file.size > CHUNK_SIZE

FirstSend ==
    [fileId |-> NewFileId(1, 0, FirstFile), file |-> FirstFile, isResend |-> FALSE]

RECURSIVE ReceiveAll(_, _, _, _)
ReceiveAll(rf, snd, offset, t) ==
    IF offset >= snd.file.size
    THEN HandleEnd(rf, snd.fileId, t)
    ELSE LET len == Min(CHUNK_SIZE, snd.file.size - offset)
         IN  ReceiveAll(HandleChunk(rf, snd.fileId,
                            [name |-> snd.file.name, off |-> offset, len |-> len]),
                        snd, offset + len, t)

AfterFirstSend ==
    LET metadata == [name |-> FirstFile.name, size |-> FirstFile.size, senderId |-> 1,
                     fileId |-> FirstSend.fileId]
        roster == [p \in Peers |-> IF p = 1 THEN <<2>> ELSE IF p = 2 THEN <<1>> ELSE <<>>]
    IN  [registry  |-> POST(POST(<<>>, RoomId, JoinBody(1), 0).registry,
                            RoomId, JoinBody(2), 0).registry,
         pc        |-> [p \in Peers |-> IF p \in {1, 2} THEN "joined" ELSE "idle"],
         resp      |-> [p \in Peers |-> <<>>],
         myNameRef |-> [p \in Peers |-> p \in {1, 2}],
         isJoined  |-> [p \in Peers |-> p \in {1, 2}],
         users     |-> roster,
         usersRef  |-> roster,
         connectionsRef |->
              [p \in Peers |->
                  IF p = 1 THEN <<[peer |-> 2, conn |-> Slot(2, 1, 1)]>>
                  ELSE IF p = 2 THEN <<[peer |-> 1, conn |-> Slot(2, 1, 1)]>>
                  ELSE <<>>],
         conns     |-> [c \in Slots |->
                           IF c = Slot(2, 1, 1)
                           THEN [FreeConn(c) EXCEPT !.dst = "open", !.ast = "open"]
                           ELSE FreeConn(c)],
         now       |-> 1,
         isSending |-> [p \in Peers |-> FALSE],
         sentFiles |->
              [p \in Peers |->
                  IF p = 1
                  THEN <<[metadata |-> metadata, progress |-> Pct(100, 1),
                          completed |-> TRUE, downloadUrl |-> "blob:"]>>
                  ELSE <<>>],
         receivedFiles |->
              [p \in Peers |->
                  IF p = 2
                  THEN ReceiveAll(HandleMetadata(<< >>, metadata, 1), FirstSend, 0, 1)
                  ELSE << >>]]

\* the variables but for sends are those of the room after the first send
IsAfterFirstSend ==
    /\ registry = AfterFirstSend.registry
    /\ pc = AfterFirstSend.pc
    /\ resp = AfterFirstSend.resp
    /\ myNameRef = AfterFirstSend.myNameRef
    /\ isJoined = AfterFirstSend.isJoined
    /\ users = AfterFirstSend.users
    /\ usersRef = AfterFirstSend.usersRef
    /\ connectionsRef = AfterFirstSend.connectionsRef
    /\ conns = AfterFirstSend.conns
    /\ now = AfterFirstSend.now
    /\ isSending = AfterFirstSend.isSending
    /\ sentFiles = AfterFirstSend.sentFiles
    /\ receivedFiles = AfterFirstSend.receivedFiles
    /\ bcast = NoCall
    /\ http = NoRequest
    /\ sender = InitSender
    /\ receiver = [r \in Peers |-> InitReceiver]

\* the FileReader of the first send has finished: no sendSingleFile call is left
InitResend ==
    /\ IsAfterFirstSend
    /\ sends = [p \in Peers |-> <<>>]

\* no FileReader loop is running
NoneReading == \A p \in Peers : \A i \in 1..Len(sends[p]) : sends[p][i].st # "reading"

(* Resends of the first file while further participants join: a join       *)
(* starts while nothing is in progress and no file is being sent.          *)
NextResend ==
    \/ \E p \in Peers : Quiescent /\ NoneReading /\ JoinPost(p)
    \/ \E p \in Peers : JoinGet(p)
    \/ \E p \in Peers : JoinInstall(p)
    \/ \E c \in Slots : OpenD(c)
    \/ \E c \in Slots : OpenA(c)
    \/ \E c \in Slots : \E toDialer \in BOOLEAN : Deliver(c, toDialer)
    \/ \E p \in Peers : \E j \in 1..MaxSends : MembershipQuiet /\ PressResend(p, j)
    \/ \E p \in Peers : \E i \in 1..MaxSends : ReadLoad(p, i)
    \/ \E p \in Peers : \E i \in 1..MaxSends : ReadError(p, i)

SpecResend == InitResend /\ [][NextResend]_vars

(* A participant joins while a file is being sent.  The room is the one of *)
(* 1 and 2 after 1 pressed Send with two files selected, the one-chunk     *)
(* file before FirstFile: the one-chunk file has been sent and received,   *)
(* which ended isSending; the metadata of FirstFile has been received and  *)
(* its FileReader has not yet loaded the first slice.                      *)
SecondFile == CHOOSE file \in Files : file # FirstFile

SecondSend ==
    [fileId |-> NewFileId(1, 0, SecondFile), file |-> SecondFile, isResend |-> FALSE]

MetadataFor(snd) ==
    [name |-> snd.file.name, size |-> snd.file.size, senderId |-> 1, fileId |-> snd.fileId]

DuringSend ==
    [AfterFirstSend EXCEPT
        !.sentFiles = [p \in Peers |->
            IF p = 1
            THEN <<[metadata |-> MetadataFor(FirstSend), progress |-> Pct(0, 1),
                    completed |-> FALSE, downloadUrl |-> ""],
                   [metadata |-> MetadataFor(SecondSend), progress |-> Pct(100, 1),
                    completed |-> TRUE, downloadUrl |-> "blob:"]>>
            ELSE <<>>],
        !.receivedFiles = [p \in Peers |->
            IF p = 2
            THEN ReceiveAll(HandleMetadata(HandleMetadata(<< >>, MetadataFor(SecondSend), 1),
                                           MetadataFor(FirstSend), 1),
                            SecondSend, 0, 1)
            ELSE << >>]]

\* the variables but for sends are those of the room during the send
IsDuringSend ==
    /\ registry = DuringSend.registry
    /\ pc = DuringSend.pc
    /\ resp = DuringSend.resp
    /\ myNameRef = DuringSend.myNameRef
    /\ isJoined = DuringSend.isJoined
    /\ users = DuringSend.users
    /\ usersRef = DuringSend.usersRef
    /\ connectionsRef = DuringSend.connectionsRef
    /\ conns = DuringSend.conns
    /\ now = DuringSend.now
    /\ isSending = DuringSend.isSending
    /\ sentFiles = DuringSend.sentFiles
    /\ receivedFiles = DuringSend.receivedFiles
    /\ bcast = NoCall
    /\ http = NoRequest
    /\ sender = InitSender
    /\ receiver = [r \in Peers |-> InitReceiver]

\* the FileReader of the one-chunk file has finished; that of FirstFile runs
InitLate ==
    /\ IsDuringSend
    /\ sends = [p \in Peers |->
                  IF p = 1
                  THEN <<[fileId |-> FirstSend.fileId, file |-> FirstFile,
                          isResend |-> FALSE, offset |-> 0, st |-> "reading"]>>
                  ELSE <<>>]

Late == NPeers

NextLate ==
    \/ JoinPost(Late)
    \/ JoinGet(Late)
    \/ JoinInstall(Late)
    \/ \E c \in Slots : OpenD(c)
    \/ \E c \in Slots : OpenA(c)
    \/ \E c \in Slots : \E toDialer \in BOOLEAN : Deliver(c, toDialer)
    \/ \E j \in 1..MaxSends : PressResend(1, j)
    \/ \E i \in 1..MaxSends : ReadLoad(1, i)

SpecLate == InitLate /\ [][NextLate]_vars

---------------------------------------------------------------------------
(* Two participants join in any interleaving; the first one may leave and  *)
(* join again.  A participant has MaxDials connection attempts per peer,   *)
(* so it joins at most MaxDials times.                                     *)

Leavers == {1}

NextChurn ==
    \/ \E p \in JoinPeers : JoinPost(p)
    \/ \E p \in JoinPeers : JoinGet(p)
    \/ \E p \in JoinPeers : JoinInstall(p)
    \/ \E p \in Leavers : LeaveStart(p)
    \/ \E p \in Leavers : LeaveDelete(p)
    \/ \E p \in Leavers : LeaveFinish(p)
    \/ \E c \in Slots : OpenD(c)
    \/ \E c \in Slots : OpenA(c)
    \/ \E c \in Slots : \E toDialer \in BOOLEAN : Deliver(c, toDialer)
    \/ \E c \in Slots : \E atDialer \in BOOLEAN : PeerClosed(c, atDialer)

SpecChurn == Init /\ [][NextChurn]_vars

AllJoined(S) == \A p \in S : pc[p] = "joined"

\* p has closed a connection at its end: in NextRejoin, by leaving
HasLeft(p) ==
    \E c \in Slots : p \in {conns[c].d, conns[c].a} /\ LocalState(conns[c], p) = "closed"

(* The participants join one after another; a participant leaves while     *)
(* nothing is in progress and may join again at once, while its user-left  *)
(* and the close of its channels are still on their way.                   *)
NextRejoin ==
    \/ \E p \in JoinPeers : (Quiescent \/ HasLeft(p)) /\ JoinPost(p)
    \/ \E p \in JoinPeers : JoinGet(p)
    \/ \E p \in JoinPeers : JoinInstall(p)
    \/ \E p \in Leavers : Quiescent /\ AllJoined(JoinPeers) /\ LeaveStart(p)
    \/ \E p \in Leavers : LeaveDelete(p)
    \/ \E p \in Leavers : LeaveFinish(p)
    \/ \E c \in Slots : OpenD(c)
    \/ \E c \in Slots : OpenA(c)
    \/ \E c \in Slots : \E toDialer \in BOOLEAN : Deliver(c, toDialer)
    \/ \E c \in Slots : \E atDialer \in BOOLEAN : PeerClosed(c, atDialer)

SpecRejoin == Init /\ [][NextRejoin]_vars

(* Two participants join at the same time, so that each may dial the other; *)
(* a connection attempt that has not opened at the dialer may time out.     *)
NextRace ==
    \/ \E p \in JoinPeers : JoinPost(p)
    \/ \E p \in JoinPeers : JoinGet(p)
    \/ \E p \in JoinPeers : JoinInstall(p)
    \/ \E c \in Slots : OpenD(c)
    \/ \E c \in Slots : OpenA(c)
    \/ \E c \in Slots : Timeout(c)
    \/ \E c \in Slots : \E toDialer \in BOOLEAN : Deliver(c, toDialer)
    \/ \E c \in Slots : \E atDialer \in BOOLEAN : PeerClosed(c, atDialer)

SpecRace == Init /\ [][NextRace]_vars

\* no connection has been closed at either end
NoneClosed == \A c \in Slots : conns[c].dst # "closed" /\ conns[c].ast # "closed"

(* All participants join one after another; then, in the quiet room, either *)
(* participant 1 leaves or a channel between 1 and 2 fails.                 *)
NextCollateral ==
    \/ \E p \in Peers : Quiescent /\ NoneClosed /\ JoinPost(p)
    \/ \E p \in Peers : JoinGet(p)
    \/ \E p \in Peers : JoinInstall(p)
    \/ \E p \in Leavers : Quiescent /\ NoneClosed /\ AllJoined(Peers) /\ LeaveStart(p)
    \/ \E p \in Leavers : LeaveDelete(p)
    \/ \E p \in Leavers : LeaveFinish(p)
    \/ \E c \in Slots : \E atDialer \in BOOLEAN :
          /\ Quiescent /\ NoneClosed /\ AllJoined(Peers)
          /\ {conns[c].d, conns[c].a} = {1, 2}
          /\ ChannelFail(c, atDialer)
    \/ \E c \in Slots : OpenD(c)
    \/ \E c \in Slots : OpenA(c)
    \/ \E c \in Slots : \E toDialer \in BOOLEAN : Deliver(c, toDialer)
    \/ \E c \in Slots : \E atDialer \in BOOLEAN : PeerClosed(c, atDialer)

SpecCollateral == Init /\ [][NextCollateral]_vars

(* Transfers in a room that the sender may leave and join again: the       *)
(* FileReader loop of a send is not stopped by handleLeaveRoom.            *)
NextStall ==
    \/ \E p \in JoinPeers : Quiescent /\ JoinPost(p)
    \/ \E p \in JoinPeers : JoinGet(p)
    \/ \E p \in JoinPeers : JoinInstall(p)
    \/ \E p \in Leavers : MembershipQuiet /\ LeaveStart(p)
    \/ \E p \in Leavers : LeaveDelete(p)
    \/ \E p \in Leavers : LeaveFinish(p)
    \/ \E c \in Slots : OpenD(c)
    \/ \E c \in Slots : OpenA(c)
    \/ \E c \in Slots : \E toDialer \in BOOLEAN : Deliver(c, toDialer)
    \/ \E c \in Slots : \E atDialer \in BOOLEAN : PeerClosed(c, atDialer)
    \/ \E p \in Leavers : \E file \in Files : MembershipQuiet /\ SendFileToAll(p, <<file>>)
    \/ \E p \in Leavers : \E j \in 1..MaxSends : MembershipQuiet /\ PressResend(p, j)
    \/ \E p \in Leavers : \E i \in 1..MaxSends : ReadLoad(p, i)
    \/ \E p \in Leavers : \E i \in 1..MaxSends : ReadError(p, i)

SpecStall == Init /\ [][NextStall]_vars

---------------------------------------------------------------------------
(* Two participants joining and leaving one after another: a participant   *)
(* starts to join or presses Leave only while nothing is in progress; the  *)
(* DELETE of a leave succeeds or fails.                                    *)

NextLeave ==
    \/ \E p \in JoinPeers : Quiescent /\ JoinPost(p)
    \/ \E p \in JoinPeers : JoinGet(p)
    \/ \E p \in JoinPeers : JoinInstall(p)
    \/ \E p \in JoinPeers : Quiescent /\ LeaveStart(p)
    \/ \E p \in JoinPeers : LeaveDelete(p)
    \/ \E p \in JoinPeers : LeaveFail(p)
    \/ \E p \in JoinPeers : LeaveFinish(p)
    \/ \E c \in Slots : OpenD(c)
    \/ \E c \in Slots : OpenA(c)
    \/ \E c \in Slots : \E toDialer \in BOOLEAN : Deliver(c, toDialer)
    \/ \E c \in Slots : \E atDialer \in BOOLEAN : PeerClosed(c, atDialer)

SpecLeave == Init /\ [][NextLeave]_vars

---------------------------------------------------------------------------
(* Nothing more happens by itself: no join or leave is under way, no       *)
(* connection attempt is pending, no connection can still open at an end,  *)
(* no message waits at an open end and no close waits to be noticed.       *)
Settled ==
    /\ \A p \in Peers : pc[p] \in {"idle", "joined", "gone"}
    /\ \A c \in Slots :
          /\ conns[c].dst # "connecting"
          /\ ~conns[c].timer
          /\ ~(conns[c].ast = "connecting" /\ conns[c].dst = "open"
                  /\ pc[conns[c].a] # "gone")
          /\ ~(conns[c].dst = "open" /\ (conns[c].toD # <<>> \/ conns[c].ast = "closed"))
          /\ ~(conns[c].ast = "open" /\ (conns[c].toA # <<>> \/ conns[c].dst = "closed"))

(* Participants join one after another and pages are closed, while nothing *)
(* else is in progress; connection attempts open or time out.              *)
NextVanish ==
    \/ \E p \in Peers : Settled /\ JoinPost(p)
    \/ \E p \in Peers : JoinGet(p)
    \/ \E p \in Peers : JoinInstall(p)
    \/ \E p \in Peers : \E flushed, deleted \in BOOLEAN :
          Settled /\ Teardown(p, flushed, deleted)
    \/ \E c \in Slots : OpenD(c)
    \/ \E c \in Slots : OpenA(c)
    \/ \E c \in Slots : Timeout(c)
    \/ \E c \in Slots : \E toDialer \in BOOLEAN : Deliver(c, toDialer)
    \/ \E c \in Slots : \E atDialer \in BOOLEAN : PeerClosed(c, atDialer)

SpecVanish == Init /\ [][NextVanish]_vars

---------------------------------------------------------------------------
(* broadcastToOthers on its own.  The caller's connectionsRef.current is   *)
(* any Map from the other peers to connections with them, each connection  *)
(* connecting, open or closed at the caller's end, next to connections     *)
(* that are not registered; the call's excludePeerId is any peer or none, and any of    *)
(* the sends may throw.                                                    *)

Caller == 1

Others == Peers \ {Caller}

\* the connections the Map is drawn from: the first one in each direction
UnitSlots(q) == {Slot(Caller, q, 1), Slot(q, Caller, 1)}

AllUnitSlots == UNION {UnitSlots(q) : q \in Others}

\* the orders in which the Map may list the other peers
Orders == {o \in [1..(NPeers - 1) -> Others] : \A i, j \in 1..(NPeers - 1) : o[i] = o[j] => i = j}

UnitConn(c, s) ==
    IF s = "none" THEN FreeConn(c)
    ELSE [FreeConn(c) EXCEPT !.dst = IF SlotD(c) = Caller THEN s ELSE "open",
                             !.ast = IF SlotD(c) = Caller THEN "open" ELSE s]

\* the Map that lists, in the order o, the peers q with a connection g[q]
UnitMap(o, g) ==
    LET all == [i \in 1..(NPeers - 1) |-> [peer |-> o[i], conn |-> g[o[i]]]]
    IN  SelectSeq(all, LAMBDA e : e.conn # NoConn)

InitBroadcast ==
    /\ registry = <<[roomId |-> RoomId,
                     peers |-> [i \in 1..NPeers |->
                                  [peerId |-> i, name |-> MyName(i), updatedAt |-> 0]]]>>
    /\ pc = [p \in Peers |-> "joined"]
    /\ resp = [p \in Peers |-> <<>>]
    /\ myNameRef = [p \in Peers |-> TRUE]
    /\ isJoined = [p \in Peers |-> TRUE]
    /\ \E f \in [AllUnitSlots -> {"none", "connecting", "open", "closed"}] :
       \E o \in Orders :
       \E g \in [Others -> Slots \cup {NoConn}] :
          /\ \A q \in Others : g[q] = NoConn \/ (g[q] \in UnitSlots(q) /\ f[g[q]] # "none")
          /\ conns = [c \in Slots |-> IF c \in AllUnitSlots THEN UnitConn(c, f[c])
                                                            ELSE FreeConn(c)]
          /\ connectionsRef = [p \in Peers |-> IF p = Caller THEN UnitMap(o, g) ELSE <<>>]
          /\ users = [p \in Peers |-> IF p = Caller THEN PeersOfMap(UnitMap(o, g)) ELSE <<>>]
          /\ usersRef = users
    /\ now = 0
    /\ isSending = [p \in Peers |-> FALSE]
    /\ sentFiles = [p \in Peers |-> <<>>]
    /\ sends = [p \in Peers |-> <<>>]
    /\ receivedFiles = [p \in Peers |-> << >>]
    /\ bcast = NoCall
    /\ http = NoRequest
    /\ sender = InitSender
    /\ receiver = [r \in Peers |-> InitReceiver]

\* one call broadcastToOthers(data, excludePeerId) at the caller; the sends of
\* the entries numbered in failing throw
Broadcast(data, excludePeerId, failing) ==
    /\ bcast.before = <<>>
    /\ failing \subseteq 1..Len(connectionsRef[Caller])
    /\ conns' = BroadcastFrom(1, connectionsRef[Caller], Caller, data, excludePeerId,
                              failing, conns)
    /\ bcast' = [data |-> data, excludePeerId |-> excludePeerId, failing |-> failing,
                 before |-> conns]
    /\ UNCHANGED <<joinVars, rosterVars, connectionsRef, now, senderVars, receivedFiles,
                   http, oneVars>>

NextBroadcast ==
    \E q \in Others : \E excludePeerId \in Others \cup {NoPeer} :
    \E failing \in SUBSET (1..(NPeers - 1)) :
        Broadcast([type |-> "user-left", peerId |-> q], excludePeerId, failing)

SpecBroadcast == InitBroadcast /\ [][NextBroadcast]_vars

(* One-to-one mode: the Sender selects one file, before or after a         *)
(* Receiver connected; every Receiver page dials the Sender once and may   *)
(* be closed.                                                              *)
NextOne ==
    \/ \E selectedFile \in Files : HandleFileChange(selectedFile)
    \/ \E r \in Receivers : ReceiverOnOpen(r)
    \/ \E c \in Slots : SenderOnConnection(c)
    \/ \E c \in Slots : SenderConnOpen(c)
    \/ \E r \in Receivers : ReceiverConnOpen(r)
    \/ \E i \in 1..MaxSends : FileReaderOnload(i)
    \/ \E i \in 1..MaxSends : FileReaderOnerror(i)
    \/ \E r \in Receivers : ReceiverData(r)
    \/ \E r \in Receivers : ReceiverUnmount(r)
    \/ \E c \in Slots : SenderConnClose(c)

SpecOne == Init /\ [][NextOne]_vars

---------------------------------------------------------------------------
(* Claims *)

\* C1 (roster convergence): once every participant has joined, every channel
\* is open and every message is delivered, the roster of every participant
\* is exactly the set of the other participants.
C1_RosterConvergence ==
    (Quiescent /\ AllJoined(JoinPeers)) =>
        \A p \in JoinPeers : ToSet(users[p]) = JoinPeers \ {p}

\* C2 (mesh completion by gossip): a joined participant p that learns of a
\* peer x from a message while it has no channel to x (dialed or accepted,
\* connecting or open) starts a connection to x in the same step.
C2_GossipDial ==
    [][\A p \in Peers : \A x \in Peers \ {p} :
          ( /\ pc[p] = "joined"
            /\ ~InList(users[p], x)
            /\ InList(users'[p], x)
            /\ LiveAt(conns, p, x) = {} )
          => LiveAt(conns', p, x) # {}]_vars

\* C8 (I4): no participant has two channels, connecting or open, dialed or
\* accepted, to the same remote peer.
C8_OneChannelPerPeer ==
    \A p \in Peers : \A q \in Peers : Cardinality(LiveAt(conns, p, q)) <= 1

\* the chunks are the bytes 0 .. size-1 of the file called name, in order
RECURSIVE IsFileFrom(_, _, _, _)
IsFileFrom(chunks, name, off, size) ==
    IF chunks = <<>> THEN off = size
    ELSE /\ Head(chunks).name = name
         /\ Head(chunks).off = off
         /\ IsFileFrom(Tail(chunks), name, off + Head(chunks).len, size)

IsFile(chunks, name, size) ==
    IF size = 0 THEN \A k \in 1..Len(chunks) : chunks[k].len = 0
    ELSE IsFileFrom(SelectSeq(chunks, LAMBDA ch : ch.len # 0), name, 0, size)

\* C3 (chunk reassembly): the artifact of every sealed IncomingTransfer is
\* the file of its metadata, byte for byte: size bytes, the sender's chunks
\* in send order.
C3_Reassembly ==
    \A p \in Peers : \A f \in DOMAIN receivedFiles[p] :
        LET r == receivedFiles[p][f]
        IN  r.completed =>
              /\ r.receivedSize = r.metadata.size
              /\ IsFile(r.blob, r.metadata.name, r.metadata.size)

\* C4 (I2): receivedSize <= metadata.size while an IncomingTransfer is not
\* completed, and receivedSize = metadata.size once it is.
C4_ReceivedWithinSize ==
    \A p \in Peers : \A f \in DOMAIN receivedFiles[p] :
        LET r == receivedFiles[p][f]
        IN  IF r.completed THEN r.receivedSize = r.metadata.size
                           ELSE r.receivedSize <= r.metadata.size

\* C5 (I3, idempotent resend): a sealed IncomingTransfer never changes again,
\* whatever message is processed: same chunks, receivedSize, progress,
\* artifact and completion timestamp.
C5_SealedIsFrozen ==
    [][\A p \in Peers : \A f \in DOMAIN receivedFiles[p] :
          receivedFiles[p][f].completed =>
             /\ f \in DOMAIN receivedFiles'[p]
             /\ receivedFiles'[p][f] = receivedFiles[p][f]]_vars

\* C5 witness: a file was sent to the end and then resent to the end with the
\* same fileId, the receiver has processed every message of both and holds
\* the file sealed.
C5_Witness ==
    \E p \in Peers : \E q \in Peers \ {p} :
        /\ Len(sends[q]) = 2
        /\ sends[q][1].st = "done" /\ ~sends[q][1].isResend
        /\ sends[q][2].st = "done" /\ sends[q][2].isResend
        /\ sends[q][2].fileId = sends[q][1].fileId
        /\ \A c \in Slots : conns[c].toA = <<>> /\ conns[c].toD = <<>>
        /\ sends[q][1].fileId \in DOMAIN receivedFiles[p]
        /\ receivedFiles[p][sends[q][1].fileId].completed
        /\ receivedFiles[p][sends[q][1].fileId].completedAt < now

\* C6 (strictly sequential sending): a participant never has two of its
\* sends in flight (metadata broadcast, neither end sent nor aborted).
C6_OneSendInFlight ==
    \A p \in Peers :
        Cardinality({i \in 1..Len(sends[p]) : sends[p][i].st = "reading"}) <= 1

\* C7 (progress monotonicity): the percentage of an IncomingTransfer never
\* decreases, and it is exactly 100 only when the transfer is sealed.
C7_ProgressMonotone ==
    /\ [][\A p \in Peers : \A f \in DOMAIN receivedFiles[p] :
             PctLeq(receivedFiles[p][f].progress, receivedFiles'[p][f].progress)]_vars
    /\ [](\A p \in Peers : \A f \in DOMAIN receivedFiles[p] :
             PctEq(receivedFiles[p][f].progress, Pct(100, 1))
                => receivedFiles[p][f].completed)

---------------------------------------------------------------------------
\* an attempt of p to connect to q is still connecting
Attempting(p, q) == \E k \in 1..MaxDials : conns[Slot(p, q, k)].dst = "connecting"

\* q has an open registered channel at p
OpenRegistered(p, q) ==
    /\ MapHas(connectionsRef[p], q)
    /\ LocalState(conns[MapGet(connectionsRef[p], q)], p) = "open"

\* p initiates a new outbound connection to q in this step
Dials(p, q) ==
    \E k \in 1..MaxDials :
        conns[Slot(p, q, k)].dst = "none" /\ conns'[Slot(p, q, k)].dst = "connecting"

(* C9 (idempotent open): no participant starts a connection attempt to a   *)
(* peer while an earlier attempt of its own to that peer is still          *)
(* connecting or while that peer has an open registered channel.           *)
C9_IdempotentOpen ==
    [][\A p \in Peers : \A q \in Peers \ {p} :
          Dials(p, q) => ~Attempting(p, q) /\ ~OpenRegistered(p, q)]_vars

---------------------------------------------------------------------------
\* what end p of connection c has sent and the other end has not yet handled
Outbox(c, p) == IF c.d = p THEN c.toA ELSE c.toD

\* connection c but for what end p has sent on it
ButOutbox(c, p) == IF c.d = p THEN [c EXCEPT !.toA = <<>>] ELSE [c EXCEPT !.toD = <<>>]

\* the entries of the caller's Map on whose connection c the call under test
\* has to deliver: c is registered, not under the excluded peer, was open at
\* the caller's end, and its send did not throw
Due(c) ==
    {i \in 1..Len(connectionsRef[Caller]) :
        /\ connectionsRef[Caller][i].conn = c
        /\ connectionsRef[Caller][i].peer # bcast.excludePeerId
        /\ LocalState(bcast.before[c], Caller) = "open"
        /\ i \notin bcast.failing}

(* C10: a broadcast sends the message exactly once on every registered     *)
(* connection that is open and does not belong to the excluded peer,       *)
(* whether or not the send on another connection failed, and sends nothing *)
(* on any other connection.                                                *)
C10_BestEffortBroadcast ==
    bcast.before # <<>> =>
        \A c \in Slots :
            /\ Outbox(conns[c], Caller) =
                   IF Due(c) # {} THEN Append(Outbox(bcast.before[c], Caller), bcast.data)
                                  ELSE Outbox(bcast.before[c], Caller)
            /\ ButOutbox(conns[c], Caller) = ButOutbox(bcast.before[c], Caller)

\* a call whose first send throws and whose second entry is an open connection
\* of a peer that is not excluded
C10_Witness ==
    /\ bcast.before # <<>>
    /\ Len(connectionsRef[Caller]) = 2
    /\ bcast.failing = {1}
    /\ connectionsRef[Caller][1].peer # bcast.excludePeerId
    /\ LocalState(bcast.before[connectionsRef[Caller][1].conn], Caller) = "open"
    /\ Due(connectionsRef[Caller][2].conn) = {2}

---------------------------------------------------------------------------
\* the connections that have an end at p
EndsAt(p) == {c \in Slots : conns[c].d = p \/ conns[c].a = p}

(* C11 (leave sequence): a leave sends user-left for the leaver on every   *)
(* channel that is open at the leaver, and when it completes the leaver's  *)
(* discovery entry is removed, every channel of the leaver is closed, its  *)
(* channel registry and its roster are empty and it is not joined.         *)
C11_LeaveSequence ==
    /\ [][\A p \in Peers : (pc[p] = "joined" /\ pc'[p] = "leaving") =>
             \A c \in EndsAt(p) : LocalState(conns[c], p) = "open" =>
                 Outbox(conns'[c], p) =
                     Append(Outbox(conns[c], p), [type |-> "user-left", peerId |-> p])]_vars
    /\ [][\A p \in Peers : (pc[p] = "deleted" /\ pc'[p] = "idle") =>
             /\ ~Registered(registry', p)
             /\ \A c \in EndsAt(p) : LocalState(conns'[c], p) \in {"none", "closed"}
             /\ connectionsRef'[p] = <<>>
             /\ users'[p] = <<>>
             /\ ~isJoined'[p]]_vars

---------------------------------------------------------------------------
(* C12: a leave ends the same way whether its DELETE succeeds or fails:    *)
(* when handleLeaveRoom is over, every channel of the leaver is closed,    *)
(* its channel registry and its roster are empty and it is not joined.     *)
C12_LeaveDespiteFailure ==
    [][\A p \in Peers :
          (pc[p] \in {"leaving", "deleted"} /\ pc'[p] \in {"idle", "joined"}) =>
             /\ \A c \in EndsAt(p) : LocalState(conns'[c], p) \in {"none", "closed"}
             /\ connectionsRef'[p] = <<>>
             /\ users'[p] = <<>>
             /\ ~isJoined'[p]]_vars

---------------------------------------------------------------------------
(* C13 (passive leave propagation): once a participant has vanished and    *)
(* everything that follows from it has been delivered, no participant      *)
(* lists it in its roster.                                                 *)
C13_GoneIsForgotten ==
    Settled =>
        \A p \in Peers : pc[p] = "gone" =>
            \A q \in Peers \ {p} : ~InList(users[q], p)

---------------------------------------------------------------------------
\* the user-list snapshot of p for the remote q: p, then p's roster but for q
Snapshot(p, q) == [type |-> "user-list", payload |-> <<p>> \o Without(users[p], q)]

JoinOf(p) == [type |-> "join", peerId |-> p]

\* connection c opens at its dialing end, at its accepting end, in this step
OpensAtDialer(c) == conns[c].dst = "connecting" /\ conns'[c].dst = "open"

OpensAtAcceptor(c) == conns[c].ast = "connecting" /\ conns'[c].ast = "open"

(* C14 as claimed (open handshake): on every channel open a joined         *)
(* participant sends the remote a join message announcing itself and the   *)
(* user-list snapshot of itself plus its roster other than the remote.     *)
C14_HandshakeClaimed ==
    [][\A c \in Slots :
          /\ (OpensAtDialer(c) /\ isJoined[conns[c].d]) =>
                \E m1, m2 \in {Snapshot(conns[c].d, conns[c].a), JoinOf(conns[c].d)} :
                    m1 # m2 /\ conns'[c].toA = conns[c].toA \o <<m1, m2>>
          /\ (OpensAtAcceptor(c) /\ isJoined[conns[c].a]) =>
                \E m1, m2 \in {Snapshot(conns[c].a, conns[c].d), JoinOf(conns[c].a)} :
                    m1 # m2 /\ conns'[c].toD = conns[c].toD \o <<m1, m2>>]_vars

(* C14 as amended: on every channel open a joined participant sends the    *)
(* remote the user-list snapshot of itself plus its roster other than the  *)
(* remote, which never contains the remote; the dialing end then sends a   *)
(* join message announcing itself, the accepting end sends no join.        *)
C14_Handshake ==
    [][\A c \in Slots :
          /\ (OpensAtDialer(c) /\ isJoined[conns[c].d]) =>
                conns'[c].toA = conns[c].toA
                    \o <<Snapshot(conns[c].d, conns[c].a), JoinOf(conns[c].d)>>
          /\ (OpensAtAcceptor(c) /\ isJoined[conns[c].a]) =>
                conns'[c].toD = conns[c].toD \o <<Snapshot(conns[c].a, conns[c].d)>>
          /\ \A k \in 1..Len(conns'[c].toA) :
                conns'[c].toA[k].type = "user-list" =>
                    ~InList(conns'[c].toA[k].payload, conns[c].a)
          /\ \A k \in 1..Len(conns'[c].toD) :
                conns'[c].toD[k].type = "user-list" =>
                    ~InList(conns'[c].toD[k].payload, conns[c].d)]_vars

\* a connection open at both ends whose accepting end, listing a third
\* participant, has sent its snapshot and no join, and whose dialing end has
\* sent its snapshot and its join
C14_Witness ==
    \E c \in Slots :
        /\ conns[c].dst = "open" /\ conns[c].ast = "open"
        /\ isJoined[conns[c].d] /\ isJoined[conns[c].a]
        /\ Len(conns[c].toD) = 1
        /\ conns[c].toD[1].type = "user-list"
        /\ Len(conns[c].toD[1].payload) >= 2
        /\ Len(conns[c].toA) = 2
        /\ conns[c].toA[1].type = "user-list"
        /\ conns[c].toA[2] = JoinOf(conns[c].d)

---------------------------------------------------------------------------
\* p, an end of connection c at which c stays open, handles in this step the
\* message at the head of what c carries towards it
Handles(c, p) ==
    LET inbox == IF conns[c].d = p THEN conns[c].toD ELSE conns[c].toA
        inbox1 == IF conns[c].d = p THEN conns'[c].toD ELSE conns'[c].toA
    IN  /\ p \in {conns[c].d, conns[c].a}
        /\ inbox # <<>>
        /\ inbox1 = Tail(inbox)
        /\ LocalState(conns[c], p) = "open"
        /\ LocalState(conns'[c], p) = "open"

Inbox(c, p) == IF conns[c].d = p THEN conns[c].toD ELSE conns[c].toA

(* C15: processing a user-list message never removes a roster member: the  *)
(* roster afterwards is the previous roster, in its order, followed by the *)
(* listed peers that are new and not the participant itself.               *)
C15_UserListMerges ==
    [][\A c \in Slots : \A p \in Peers :
          (Handles(c, p) /\ Head(Inbox(c, p)).type = "user-list") =>
             /\ ToSet(users'[p]) =
                   ToSet(users[p]) \cup (ToSet(Head(Inbox(c, p)).payload) \ {p})
             /\ SubSeq(users'[p], 1, Len(users[p])) = users[p]
             /\ Len(users'[p]) = Cardinality(ToSet(users'[p]))]_vars

\* a participant lists, after a member it dialed, a peer with which it never
\* had a connection: it learned that peer from a user-list
C15_Witness ==
    \E p \in Peers : \E x \in Peers \ {p} : \E y \in Peers \ {p, x} :
        /\ users[p] = <<y, x>>
        /\ \A k \in 1..MaxDials :
              conns[Slot(p, x, k)].dst = "none" /\ conns[Slot(x, p, k)].dst = "none"
        /\ conns[Slot(p, y, 1)].dst = "open"

---------------------------------------------------------------------------
PctLess(x, y) == IsNumber(x) /\ IsNumber(y) /\ x.num * y.den < y.num * x.den

\* the fileIds that sends started in this room can carry
FileIds == {NewFileId(p, t, file) : p \in JoinPeers, t \in 0..MaxSends, file \in Files}

\* p holds an unsealed IncomingTransfer f with only some of the chunks of the
\* file, and no channel between p and the sender of f is open at p
Stalled(p, f) ==
    /\ f \in DOMAIN receivedFiles[p]
    /\ LET r == receivedFiles[p][f]
       IN  /\ ~r.completed
           /\ r.chunks # <<>>
           /\ ~IsFile(r.chunks, r.metadata.name, r.metadata.size)
           /\ \A c \in Slots :
                 ({conns[c].d, conns[c].a} = {p, r.metadata.senderId}) =>
                    LocalState(conns[c], p) # "open"

\* the IncomingTransfer f of p, while p holds it, is in Receiving
Receiving(p, f) ==
    (f \in DOMAIN receivedFiles[p]) =>
        LET r == receivedFiles[p][f]
        IN  /\ ~r.completed
            /\ r.downloadUrl = "null"
            /\ PctLess(r.progress, Pct(100, 1))

\* an IncomingTransfer of p is sealed in this step
Seals(p, f) ==
    /\ f \in DOMAIN receivedFiles'[p]
    /\ receivedFiles'[p][f].completed
    /\ ~(f \in DOMAIN receivedFiles[p] /\ receivedFiles[p][f].completed)

\* an IncomingTransfer becomes completed only in a step that processes an end
\* message for its fileId
SealedByEnd ==
    [][\A p \in Peers : \A f \in FileIds :
          Seals(p, f) =>
             \E c \in Slots :
                /\ Handles(c, p)
                /\ Head(Inbox(c, p)).type = "end"
                /\ Head(Inbox(c, p)).fileId = f]_vars

\* C16 (sealing requires end): an IncomingTransfer is sealed only by an end
\* message for its fileId, and a transfer of which the receiver got the
\* metadata and only some of the chunks before the sender's channel closed
\* is in Receiving (not completed, no artifact, progress below 100) and the
\* next step leaves it there.
C16_SealingRequiresEnd ==
    /\ SealedByEnd
    /\ [][\A p \in Peers : \A f \in FileIds :
            Stalled(p, f) => (Receiving(p, f) /\ Receiving(p, f)')]_vars

---------------------------------------------------------------------------
\* the messages that end p of connection c sends in this step
SentOn(c, p) ==
    LET out  == Outbox(conns[c], p)
        out1 == Outbox(conns'[c], p)
    IN  IF /\ p \in {conns[c].d, conns[c].a}
           /\ Len(out1) > Len(out)
           /\ SubSeq(out1, 1, Len(out)) = out
        THEN SubSeq(out1, Len(out) + 1, Len(out1))
        ELSE <<>>

\* the sendSingleFile calls of p that are reading and take a step
Stepping(p) ==
    {i \in 1..Len(sends[p]) :
        /\ sends[p][i].st = "reading"
        /\ i \in 1..Len(sends'[p])
        /\ sends'[p][i] # sends[p][i]}

(* C17 (read-failure abort): the step in which a read of a send fails sends *)
(* nothing and clears the sender's sending flag; the aborted send never     *)
(* takes a step again, and every chunk or end message that is sent belongs  *)
(* to a send that is still reading, so the aborted send broadcasts no       *)
(* further chunk and no end.                                                *)
C17_ReadFailureAborts ==
    [][\A p \in Peers :
          /\ \A i \in 1..Len(sends[p]) :
                /\ (/\ sends[p][i].st = "reading"
                    /\ i \in 1..Len(sends'[p])
                    /\ sends'[p][i].st = "aborted") =>
                       /\ conns' = conns
                       /\ ~isSending'[p]
                       /\ sends'[p][i].offset = sends[p][i].offset
                /\ (sends[p][i].st = "aborted" /\ i \in 1..Len(sends'[p])) =>
                       sends'[p][i] = sends[p][i]
          /\ \A c \in Slots : \A k \in 1..Len(SentOn(c, p)) :
                LET m == SentOn(c, p)[k]
                IN  (m.type \in {"chunk", "end"}) =>
                       \E i \in Stepping(p) : sends[p][i].fileId = m.fileId]_vars

\* a send was aborted after its first chunk; the receiver holds that chunk in
\* an unsealed transfer, nothing is in flight and the sender is free to send
C17_Witness ==
    \E p \in Peers : \E q \in Peers \ {p} : \E i \in 1..Len(sends[p]) :
        /\ sends[p][i].st = "aborted"
        /\ sends[p][i].offset > 0
        /\ ~isSending[p]
        /\ sends[p][i].fileId \in DOMAIN receivedFiles[q]
        /\ ~receivedFiles[q][sends[p][i].fileId].completed
        /\ Len(receivedFiles[q][sends[p][i].fileId].chunks) = 1
        /\ \A c \in Slots : conns[c].toA = <<>> /\ conns[c].toD = <<>>

---------------------------------------------------------------------------
MetadataOf(p, snd) ==
    [type |-> "metadata",
     payload |-> [name |-> snd.file.name, size |-> snd.file.size, senderId |-> p,
                  fileId |-> snd.fileId]]

\* the chunk a reading send broadcasts next, followed by end when it is the last
NextOf(snd) ==
    LET len == Min(CHUNK_SIZE, snd.file.size - snd.offset)
        chunk == [type |-> "chunk",
                  payload |-> [name |-> snd.file.name, off |-> snd.offset, len |-> len],
                  fileId |-> snd.fileId]
    IN  IF snd.offset + len < snd.file.size
        THEN <<chunk>>
        ELSE <<chunk, [type |-> "end", fileId |-> snd.fileId]>>

\* the connections to other participants that are open at p's end
OpenAt(p) ==
    {c \in Slots : /\ p \in {conns[c].d, conns[c].a}
                   /\ conns[c].d # conns[c].a
                   /\ LocalState(conns[c], p) = "open"}

(* C18 (sender message order): every step of a send reaches every channel   *)
(* that is open at the sender: the step that starts sends puts one metadata *)
(* message per started send on the channel, each later step of a send puts  *)
(* the chunk at the send's offset and moves the offset past it, and the     *)
(* step of the last chunk puts one end message right after that chunk and   *)
(* finishes the send, which then never takes a step again.  So a channel    *)
(* open during the whole of a send that is not aborted gets one metadata,   *)
(* the chunks in increasing offset order, one end, and no chunk after it.   *)
C18_SenderOrder ==
    [][\A p \in Peers :
          /\ Len(sends'[p]) > Len(sends[p]) =>
                \A c \in OpenAt(p) :
                   SentOn(c, p) = [k \in 1..(Len(sends'[p]) - Len(sends[p])) |->
                                      MetadataOf(p, sends'[p][Len(sends[p]) + k])]
          /\ \A i \in Stepping(p) :
                \/ sends'[p][i] = [sends[p][i] EXCEPT !.st = "aborted"]
                \/ /\ sends'[p][i].offset =
                         sends[p][i].offset
                            + Min(CHUNK_SIZE, sends[p][i].file.size - sends[p][i].offset)
                   /\ sends'[p][i].st =
                         IF sends'[p][i].offset < sends[p][i].file.size
                         THEN "reading" ELSE "done"
                   /\ \A c \in OpenAt(p) : SentOn(c, p) = NextOf(sends[p][i])
          /\ \A i \in 1..Len(sends[p]) :
                (sends[p][i].st = "done" /\ i \in 1..Len(sends'[p])) =>
                    sends'[p][i] = sends[p][i]]_vars

---------------------------------------------------------------------------
\* the history of the sender of fileId f shows the file as completed
SentCompletely(f) ==
    \E p \in Peers : \E k \in 1..Len(sentFiles[p]) :
        sentFiles[p][k].metadata.fileId = f /\ sentFiles[p][k].completed

\* the step starts a resend at p
Resends(p) ==
    /\ Len(sends'[p]) = Len(sends[p]) + 1
    /\ sends'[p][Len(sends'[p])].isResend

(* C19 (resend reaches new receivers): a resend runs under the fileId of a  *)
(* history entry, adds no history entry and puts its metadata on every      *)
(* registered open channel; a participant that handles a metadata message   *)
(* for a fileId it does not hold creates an unsealed IncomingTransfer for   *)
(* it; and whoever seals a transfer of a file that its sender has sent      *)
(* completely holds the complete file.                                      *)
C19_ResendReachesNew ==
    /\ [][\A p \in Peers :
            /\ Resends(p) =>
                  LET snd == sends'[p][Len(sends'[p])]
                  IN  /\ \E k \in 1..Len(sentFiles[p]) :
                            sentFiles[p][k].metadata.fileId = snd.fileId
                      /\ sentFiles'[p] = sentFiles[p]
                      /\ \A k \in 1..Len(connectionsRef[p]) :
                            LET c == connectionsRef[p][k].conn
                            IN  (LocalState(conns[c], p) = "open") =>
                                   SentOn(c, p) = <<MetadataOf(p, snd)>>
            /\ \A c \in Slots :
                  (/\ Handles(c, p)
                   /\ Head(Inbox(c, p)).type = "metadata"
                   /\ Head(Inbox(c, p)).payload.fileId \notin DOMAIN receivedFiles[p]) =>
                      LET f == Head(Inbox(c, p)).payload.fileId
                      IN  /\ f \in DOMAIN receivedFiles'[p]
                          /\ ~receivedFiles'[p][f].completed
                          /\ receivedFiles'[p][f].chunks = <<>>]_vars
    /\ [](\A q \in Peers : \A f \in DOMAIN receivedFiles[q] :
             LET r == receivedFiles[q][f]
             IN  (r.completed /\ SentCompletely(f)) =>
                    /\ r.receivedSize = r.metadata.size
                    /\ IsFile(r.blob, r.metadata.name, r.metadata.size))

---------------------------------------------------------------------------
\* the timer of the connection attempt c is pending before the step and not
\* after it, and the attempt has not opened
TimesOut(c) ==
    /\ conns[c].timer
    /\ ~conns'[c].timer
    /\ conns[c].dst = "connecting"
    /\ conns'[c].dst # "open"

(* C20 (connection timeout): when the timeout of an attempt that has not    *)
(* opened fires, the connection is closed at the dialing end, the dialer's  *)
(* Map holds no entry with this connection, and the step dials nobody;      *)
(* the open handler cancels the timeout, so a connection that is open at    *)
(* the dialing end has no timeout pending and none can act on it.           *)
C20_ConnectionTimeout ==
    /\ [][\A c \in Slots :
            /\ TimesOut(c) =>
                  /\ conns'[c].dst = "closed"
                  /\ \A k \in 1..Len(connectionsRef'[conns[c].d]) :
                        connectionsRef'[conns[c].d][k].conn # c
                  /\ \A c2 \in Slots : (conns[c2].dst = "none") => (conns'[c2].dst = "none")
            /\ (conns[c].dst = "connecting" /\ conns'[c].dst = "open") => ~conns'[c].timer
            /\ (conns[c].dst = "open" /\ \E c2 \in Slots : TimesOut(c2)) =>
                  conns'[c] = conns[c]]_vars
    /\ [](\A c \in Slots :
             /\ (conns[c].dst = "open") => ~conns[c].timer
             /\ conns[c].timer => (conns[c].dst = "connecting"))

\* an attempt timed out: it is closed at the dialing end of a participant
\* whose page is still there, it never opened and it is not registered
C20_Witness ==
    \E c \in Slots :
        /\ conns[c].dst = "closed"
        /\ conns[c].ast = "connecting"
        /\ pc[conns[c].d] = "joined"
        /\ ~conns[c].timer
        /\ \A k \in 1..Len(connectionsRef[conns[c].d]) :
              connectionsRef[conns[c].d][k].conn # c

---------------------------------------------------------------------------
\* the connections between p and q, dialed by either, that are open at both ends
OpenBetween(p, q) ==
    {c \in Slots : /\ {conns[c].d, conns[c].a} = {p, q}
                   /\ conns[c].dst = "open"
                   /\ conns[c].ast = "open"}

(* C21 (sequential three-party join): when the participants have joined    *)
(* one after another, each join completing before the next begins, there   *)
(* is exactly one open channel between each two of them, no other live     *)
(* connection, and the roster of each is the set of the others.            *)
C21_SequentialJoin ==
    (Quiescent /\ AllJoined(Peers)) =>
        \A p \in Peers :
           /\ ToSet(users[p]) = Peers \ {p}
           /\ \A q \in Peers \ {p} :
                 /\ Cardinality(OpenBetween(p, q)) = 1
                 /\ LiveAt(conns, p, q) = OpenBetween(p, q)

---------------------------------------------------------------------------
(* C22 (stale entry pruning): the response of a GET holds no entry whose   *)
(* last POST is more than an hour old, and it holds every entry that the   *)
(* room held before the request and whose last POST is at most an hour     *)
(* old, as the room held it.                                               *)
C22_StalePruning ==
    (http.method = "GET") =>
        /\ \A i \in 1..Len(http.peers) : http.at - http.peers[i].updatedAt <= StaleMs
        /\ \A e \in ToSet(RoomOf(http.before, http.roomId)) :
              (http.at - e.updatedAt <= StaleMs) => InList(http.peers, e)
        /\ \A i \in 1..Len(http.peers) :
              InList(RoomOf(http.before, http.roomId), http.peers[i])

\* a GET found two entries in the room, one exactly an hour old and one a
\* millisecond older, and returned the first of them only
C22_Witness ==
    /\ http.method = "GET"
    /\ Len(http.peers) = 1
    /\ http.at - http.peers[1].updatedAt = StaleMs
    /\ \E e \in ToSet(RoomOf(http.before, http.roomId)) :
          http.at - e.updatedAt = StaleMs + 1

---------------------------------------------------------------------------
\* the request under test lacks a field that its handler requires
Invalid ==
    \/ http.method = "POST" /\ (http.body.peerId = NoPeer \/ http.body.name = NoName)
    \/ http.method = "DELETE" /\ http.body.peerId = NoPeer

(* C23 (registry request validation): a POST lacking peerId or name and a  *)
(* DELETE lacking peerId are answered with status 400 and leave the whole  *)
(* registry, every room and every entry, as it was.                        *)
C23_Validation ==
    Invalid => (http.status = 400 /\ registry = http.before)

\* an invalid POST and an invalid DELETE arrived at a registry that holds
\* entries in both rooms
C23_Witness ==
    /\ Invalid
    /\ \A roomId \in Rooms : HasRoom(http.before, roomId)
    /\ http.status = 400

---------------------------------------------------------------------------
\* the entries of a room that belong to other peers than peerId, in order
OtherEntries(room, peerId) == SelectSeq(room, LAMBDA e : e.peerId # peerId)

\* the request left every room but its own as it was
OtherRoomsKept ==
    /\ \A i \in 1..Len(http.before) :
          (http.before[i].roomId # http.roomId) => InList(registry, http.before[i])
    /\ \A i \in 1..Len(registry) :
          (registry[i].roomId # http.roomId) => InList(http.before, registry[i])

(* C24 (registry upsert and delete): after a valid POST the room holds      *)
(* exactly one entry for the peerId, with the name of the request, and the  *)
(* response lists the room's entries; after a valid DELETE the room holds   *)
(* no entry for the peerId and the response lists what is left; neither     *)
(* changes another entry of the room or another room.                       *)
C24_UpsertDelete ==
    (http.method \in {"POST", "DELETE"} /\ ~Invalid) =>
        LET room   == RoomOf(registry, http.roomId)
            peerId == http.body.peerId
            mine   == SelectSeq(room, LAMBDA e : e.peerId = peerId)
        IN  /\ http.status = 200
            /\ http.peers = room
            /\ OtherEntries(room, peerId) =
                  OtherEntries(RoomOf(http.before, http.roomId), peerId)
            /\ OtherRoomsKept
            /\ IF http.method = "POST"
               THEN /\ Len(mine) = 1
                    /\ mine[1].name = http.body.name
                    /\ mine[1].updatedAt = http.at
               ELSE Len(mine) = 0

\* a POST gave a new name to the entry of a peer in a room that holds the
\* entry of another peer as well
C24_Witness ==
    /\ http.method = "POST"
    /\ ~Invalid
    /\ \E e \in ToSet(RoomOf(http.before, http.roomId)) :
          e.peerId = http.body.peerId /\ e.name # http.body.name
    /\ Len(RoomOf(registry, http.roomId)) = 2

---------------------------------------------------------------------------
(* C25 (room entry lifecycle): after every request the registry holds no    *)
(* room whose Map of peers is empty, and at most one Map per roomId: a room *)
(* is in the registry exactly when it holds at least one entry.             *)
C25_RoomLifecycle ==
    /\ \A i \in 1..Len(registry) : Len(registry[i].peers) > 0
    /\ \A i \in 1..Len(registry) : \A j \in 1..Len(registry) :
          (registry[i].roomId = registry[j].roomId) => i = j
    /\ \A roomId \in Rooms : HasRoom(registry, roomId) <=> Len(RoomOf(registry, roomId)) > 0

\* a DELETE or the pruning of a GET removed the last entry of a room, and the
\* room with it, while the other room stays
C25_Witness ==
    /\ http.method \in {"GET", "DELETE"}
    /\ HasRoom(http.before, http.roomId)
    /\ ~HasRoom(registry, http.roomId)
    /\ Len(registry) = 1

---------------------------------------------------------------------------
(* C26 (join failure is surfaced): when the POST of a join fails (the step  *)
(* starts the join and leaves the participant without an entry, or ends in  *)
(* the catch branch) or its GET fails (the step ends the wait for the GET   *)
(* without a response to install), the join ends with the join-failed       *)
(* status, the participant is not joined and the step dials nobody; and a   *)
(* participant whose join has failed is not joined.                         *)
C26_JoinFailureSurfaced ==
    [][\A p \in Peers :
          /\ (/\ pc[p] = "idle"
              /\ pc'[p] # "idle"
              /\ pc'[p] # "gone"
              /\ ~Registered(registry', p) \/ pc'[p] = "failed") =>
                 /\ pc'[p] = "failed"
                 /\ ~isJoined'[p]
                 /\ conns' = conns
          /\ (pc[p] = "posted" /\ pc'[p] \notin {"posted", "fetched", "gone"}) =>
                 /\ pc'[p] = "failed"
                 /\ ~isJoined'[p]
                 /\ conns' = conns
          /\ (pc'[p] = "failed") => ~isJoined'[p]]_vars

---------------------------------------------------------------------------
(* C27 (fileId uniqueness): any two distinct sends that are not resends, by *)
(* the same or by different participants, carry different fileIds.          *)
C27_FileIdUnique ==
    \A p \in Peers : \A q \in Peers :
        \A i \in 1..Len(sends[p]) : \A j \in 1..Len(sends[q]) :
            (/\ <<p, i>> # <<q, j>>
             /\ ~sends[p][i].isResend
             /\ ~sends[q][j].isResend) => sends[p][i].fileId # sends[q][j].fileId

---------------------------------------------------------------------------
\* the chunk sizes the specification gives for a file of S bytes
ChunkCount(S) == (S + 65535) \div 65536
ChunkSizes(S) ==
    [k \in 1..ChunkCount(S) |-> IF k < ChunkCount(S) THEN 65536 ELSE S - 65536 * (k - 1)]
Lens(chunks) == [k \in 1..Len(chunks) |-> chunks[k].len]

(* C28 (chunking arithmetic): when the end of a file of S > 0 bytes has     *)
(* been sent the sender's offset equals S, and a receiver that has          *)
(* processed the end holds ceil(S / 65536) chunks, each but the last of     *)
(* 65536 bytes and the last of the remaining bytes (150,000 bytes: 65536,   *)
(* 65536, 18928), consecutive from offset 0 and summing to S.               *)
C28_ChunkArithmetic ==
    /\ ChunkSizes(150000) = <<65536, 65536, 18928>>
    /\ \A p \in Peers : \A i \in 1..Len(sends[p]) :
          (sends[p][i].st = "done") => sends[p][i].offset = sends[p][i].file.size
    /\ \A q \in Peers : \A f \in DOMAIN receivedFiles[q] :
          LET r == receivedFiles[q][f]
          IN  r.completed =>
                 /\ Lens(r.chunks) = ChunkSizes(r.metadata.size)
                 /\ r.receivedSize = r.metadata.size
                 /\ \A k \in 1..Len(r.chunks) : r.chunks[k].off = 65536 * (k - 1)

C28_Witness ==
    \E p \in Peers : \E q \in Peers \ {p} : \E f \in DOMAIN receivedFiles[q] :
        /\ Len(sends[p]) = 1
        /\ sends[p][1].st = "done"
        /\ sends[p][1].fileId = f
        /\ sends[p][1].offset = 150000
        /\ receivedFiles[q][f].completed
        /\ Lens(receivedFiles[q][f].chunks) = <<65536, 65536, 18928>>

---------------------------------------------------------------------------
\* the step is p handling the message at the head of c, a chunk or an end
\* whose fileId has no IncomingTransfer at p
HandlesUnknown(c, p) ==
    /\ Handles(c, p)
    /\ Head(Inbox(c, p)).type \in {"chunk", "end"}
    /\ Head(Inbox(c, p)).fileId \notin DOMAIN receivedFiles[p]

(* C29 (unknown fileId is dropped): a participant that handles a chunk or   *)
(* an end whose fileId has no IncomingTransfer leaves its IncomingTransfers *)
(* unchanged; and a participant whose channel opened after the metadata of  *)
(* a send was broadcast never seals an artifact of that fileId that is not  *)
(* the whole file.                                                          *)
C29_UnknownDropped ==
    /\ [][\A c \in Slots : \A p \in Peers :
             HandlesUnknown(c, p) => receivedFiles'[p] = receivedFiles[p]]_vars
    /\ [](\A f \in DOMAIN receivedFiles[Late] :
             LET r == receivedFiles[Late][f]
             IN  r.completed => IsFile(r.blob, r.metadata.name, r.metadata.size))

---------------------------------------------------------------------------
\* a channel between p and q is open at both ends
OpenBoth(p, q) ==
    \E c \in Slots : /\ {conns[c].d, conns[c].a} = {p, q}
                     /\ conns[c].dst = "open"
                     /\ conns[c].ast = "open"

(* C30 (leave then rejoin): once a participant that left has joined again  *)
(* and nothing is in progress any more, it and the participants that       *)
(* stayed list each other in their rosters and each pair has an open       *)
(* channel.                                                                *)
C30_RejoinConverges ==
    (Settled /\ AllJoined(JoinPeers) /\ \E p \in Leavers : HasLeft(p)) =>
        \A p \in JoinPeers : \A q \in JoinPeers \ {p} :
            InList(users[p], q) /\ OpenBoth(p, q)

---------------------------------------------------------------------------
(* C31 (roster well-formedness): the roster of a participant never lists   *)
(* the participant itself and never lists a peerId twice.                  *)
C31_RosterWellFormed ==
    \A p \in Peers :
        /\ ~InList(users[p], p)
        /\ Len(users[p]) = Cardinality(ToSet(users[p]))


\* both participants fetched each other from discovery and dialed each other:
\* each has handled the join of a peer that its roster already listed
C31_Witness ==
    /\ Quiescent
    /\ conns[Slot(1, 2, 1)].ast = "open"
    /\ conns[Slot(2, 1, 1)].ast = "open"
    /\ users[1] = <<2>>
    /\ users[2] = <<1>>

---------------------------------------------------------------------------
\* p and q list each other and have a channel that is open at both ends
Intact(p, q) == InList(users[p], q) /\ InList(users[q], p) /\ OpenBoth(p, q)

(* C32 (no collateral removal): when the departure of a participant that   *)
(* left has fully propagated, the participants that stayed still list each *)
(* other and have their channels; and when only a channel between 1 and 2  *)
(* failed and that has fully propagated, every other pair of participants  *)
(* still list each other and have their channel.                           *)
C32_NoCollateralRemoval ==
    /\ (Settled /\ pc[1] = "idle" /\ HasLeft(1) /\ AllJoined(Peers \ {1})) =>
          \A p \in Peers \ {1} : \A q \in Peers \ {1, p} : Intact(p, q)
    /\ (Settled /\ AllJoined(Peers) /\ ~NoneClosed) =>
          \A p \in Peers : \A q \in Peers \ {p} : ({p, q} # {1, 2}) => Intact(p, q)

---------------------------------------------------------------------------
\* the registry of p holds, for q, a connection that is open at p
HoldsOpen(p, q) ==
    /\ MapHas(connectionsRef[p], q)
    /\ LocalState(conns[MapGet(connectionsRef[p], q)], p) = "open"

(* C33 (registry entries track their own channel): a step in which the     *)
(* connection that the registry of p holds for q is open at p before and   *)
(* after does not remove the entry for q from the registry of p.           *)
C33_EntryTracksChannel ==
    [][\A p \in Peers : \A q \in Peers \ {p} :
          (/\ HoldsOpen(p, q)
           /\ LocalState(conns'[MapGet(connectionsRef[p], q)], p) = "open") =>
              MapHas(connectionsRef'[p], q)]_vars

---------------------------------------------------------------------------
(* C34 (roster covers open channels): when a channel between two joined    *)
(* participants is open at both ends and carries no undelivered message,   *)
(* each of the two lists the other in its roster.                          *)
C34_RosterCoversChannels ==
    \A c \in Slots :
        LET p == conns[c].d
            q == conns[c].a
        IN  (/\ p # q
             /\ pc[p] = "joined"
             /\ pc[q] = "joined"
             /\ conns[c].dst = "open"
             /\ conns[c].ast = "open"
             /\ conns[c].toA = <<>>
             /\ conns[c].toD = <<>>) => (InList(users[p], q) /\ InList(users[q], p))

---------------------------------------------------------------------------
(* C35 (fan-out completeness): when nothing is in progress, every member   *)
(* of the roster of a joined participant has, in that participant's        *)
(* registry, a channel that is open at both ends.                          *)
C35_FanOutComplete ==
    Settled =>
        \A p \in Peers : \A q \in ToSet(users[p]) :
            (pc[p] = "joined") =>
                /\ HoldsOpen(p, q)
                /\ LocalState(conns[MapGet(connectionsRef[p], q)], q) = "open"

---------------------------------------------------------------------------
(* C36 (discovery liveness of present members): the response of every GET  *)
(* lists every participant that is joined at the time of the request.      *)
C36_PresentAreListed ==
    [][\A p \in Peers :
          (pc[p] = "posted" /\ pc'[p] = "fetched") =>
              \A q \in Peers : (pc[q] = "joined") => InList(resp'[p], q)]_vars

---------------------------------------------------------------------------
(* C37 (a participant that has left is inert): while a participant that    *)
(* was joined and has completed its leave has not started to join again,   *)
(* its roster and its channel registry are empty and it sends no message.  *)
C37_LeftIsInert ==
    [][\A p \in Peers :
          (pc'[p] = "idle" /\ myNameRef'[p]) =>
              /\ users'[p] = <<>>
              /\ connectionsRef'[p] = <<>>
              /\ (pc[p] = "idle") =>
                    \A c \in EndsAt(p) :
                        Len(Outbox(conns'[c], p)) <= Len(Outbox(conns[c], p))]_vars

\* C38: seal consistency.  For every incoming transfer of every participant,
\* in every reachable state, completed is true exactly when a download URL
\* is present and exactly when the completion timestamp is set, and a
\* completed transfer has progress 100.
C38_SealConsistent ==
    \A p \in Peers : \A f \in DOMAIN receivedFiles[p] :
        LET file == receivedFiles[p][f]
        IN  /\ file.completed <=> file.downloadUrl # "null"
            /\ file.completed <=> file.completedAt # Undefined
            /\ file.completed => file.progress = Pct(100, 1)

\* one participant holds a sealed transfer while another holds one that has
\* received a chunk and is not sealed yet
C38_Witness ==
    \E p, q \in Peers : \E f \in DOMAIN receivedFiles[p], g \in DOMAIN receivedFiles[q] :
        /\ receivedFiles[p][f].completed
        /\ receivedFiles[p][f].blob # <<>>
        /\ ~receivedFiles[q][g].completed
        /\ receivedFiles[q][g].chunks # <<>>

\* the sends of p that have broadcast metadata and neither sent end nor aborted
InFlight(p) == {i \in 1..Len(sends[p]) : sends[p][i].st = "reading"}

\* C39 (sending flag): isSending of a participant is true whenever one of
\* its sends is in flight, and no resend starts while one of its sends is
\* in flight.
C39_SendingFlagCoversSends ==
    /\ [](\A p \in Peers : InFlight(p) # {} => isSending[p])
    /\ [][\A p \in Peers :
             (/\ Len(sends'[p]) = Len(sends[p]) + 1
              /\ sends'[p][Len(sends'[p])].isResend) => InFlight(p) = {}]_vars

\* nothing is under way in one-to-one mode: no FileReader is reading, no
\* message is in flight and no connection is being established
OneSettled ==
    /\ \A i \in 1..Len(sender.fileReaders) : sender.fileReaders[i].st # "reading"
    /\ \A r \in Receivers :
          /\ conns[ConnOf(r)].toD = <<>>
          /\ conns[ConnOf(r)].dst # "connecting"
          /\ conns[ConnOf(r)].ast # "connecting"

RECURSIVE ByteLength(_)
ByteLength(chunks) ==
    IF chunks = <<>> THEN 0 ELSE Head(chunks).len + ByteLength(Tail(chunks))

\* C40 (one-to-one mode completes): once the Sender has begun a transfer to
\* a Receiver whose connection stays open, and no read fails, the Sender
\* sends end on that connection and the Receiver exposes an artifact made
\* of the chunks received since the last metadata, with file.size bytes,
\* whatever other peer connects meanwhile.  Stated on the states in which
\* nothing is under way any more.
C40_OneToOneCompletes ==
    \A r \in Receivers :
        LET c     == ConnOf(r)
            begun == {i \in 1..Len(sender.fileReaders) : sender.fileReaders[i].conn = c}
        IN  (/\ OneSettled
             /\ conns[c].dst = "open"
             /\ conns[c].ast = "open"
             /\ begun # {}
             /\ \A i \in 1..Len(sender.fileReaders) : sender.fileReaders[i].st # "aborted") =>
                /\ \A i \in begun : sender.fileReaders[i].end = c
                /\ receiver[r].downloadUrl # "null"
                /\ ByteLength(receiver[r].blob) = receiver[r].fileInfo.size

====
